---- MODULE Spec2Model ----
(***************************************************************************)
(* A model of the JUMBF box parser of jumbf-rs: the box header decoder     *)
(* (DataBox::from_source and its slice and reader front ends), the         *)
(* description-box decoder, the depth-limited superbox tree builder, the   *)
(* label lookup and DataBox::offset_within_superbox; and of the box        *)
(* writer: DataBoxBuilder, PlaceholderDataBox and write_jumbf.             *)
(*                                                                         *)
(* Numbers.  The code computes with u32, u64 and usize.  TLC's integers    *)
(* are 32 bits wide, so a 64-bit value is kept here as four 16-bit limbs,  *)
(* most significant first, and added, subtracted and compared limb by      *)
(* limb: every value of a length field, including 2^64 - 1, is             *)
(* represented exactly and a sum that leaves 64 bits is seen to do so.     *)
(* usize is taken to be 64 bits wide (the `as usize` casts are then the    *)
(* identity), as on the targets the crate's tests run on.                  *)
(***************************************************************************)
EXTENDS Integers, Sequences, FiniteSets, TLC

VARIABLES
    input,      \* the bytes of the caller's buffer, of the stream behind the reader,
                \* or of the sink a box is written to
    pos,        \* the position of the reader or of the sink (Cursor::position), 64 bits
    op,         \* the operation that produced `res`
    res,        \* what that operation returned
    arg,        \* the arguments it was called with
    debug_build, \* TRUE: overflow checks are compiled in (an overflowing + panics)
    held,       \* the parsed boxes the caller keeps between calls
    pbox        \* the caller's PlaceholderDataBox, once constructed

vars == <<input, pos, op, res, arg, debug_build, held, pbox>>

\* What the parser's and the lookup's calls never touch.
kept == <<held, pbox>>

(***************************************************************************)
(* 64-bit arithmetic on limbs                                              *)
(***************************************************************************)
Limb == 2^16

U64Zero == <<0, 0, 0, 0>>

\* The largest value: u64::MAX, and usize::MAX on a 64-bit target.
U64Max == <<Limb - 1, Limb - 1, Limb - 1, Limb - 1>>

\* A small natural number (below 2^31) as a 64-bit value.
U64(n) == <<0, 0, n \div Limb, n % Limb>>

IsSmall(x) == x[1] = 0 /\ x[2] = 0 /\ x[3] < 2^14

\* The value of x as a TLC integer; only for values below 2^30.
Nat32(x) == x[3] * Limb + x[4]

U64Lt(x, y) ==
    \/ x[1] < y[1]
    \/ x[1] = y[1] /\ x[2] < y[2]
    \/ x[1] = y[1] /\ x[2] = y[2] /\ x[3] < y[3]
    \/ x[1] = y[1] /\ x[2] = y[2] /\ x[3] = y[3] /\ x[4] < y[4]

U64Le(x, y) == x = y \/ U64Lt(x, y)

\* x + y: the sum modulo 2^64 and whether the true sum left 64 bits.
U64Add(x, y) ==
    LET s4 == x[4] + y[4]
        s3 == x[3] + y[3] + s4 \div Limb
        s2 == x[2] + y[2] + s3 \div Limb
        s1 == x[1] + y[1] + s2 \div Limb
    IN  [val |-> <<s1 % Limb, s2 % Limb, s3 % Limb, s4 % Limb>>,
         overflow |-> s1 \div Limb > 0]

\* x - y modulo 2^64 and whether y > x (the true difference is negative).
U64Sub(x, y) ==
    LET s4 == x[4] + (Limb - 1 - y[4]) + 1
        s3 == x[3] + (Limb - 1 - y[3]) + s4 \div Limb
        s2 == x[2] + (Limb - 1 - y[2]) + s3 \div Limb
        s1 == x[1] + (Limb - 1 - y[1]) + s2 \div Limb
    IN  [val |-> <<s1 % Limb, s2 % Limb, s3 % Limb, s4 % Limb>>,
         overflow |-> s1 \div Limb = 0]

(***************************************************************************)
(* Bytes                                                                   *)
(***************************************************************************)
\* u32::from_be_bytes, widened to 64 bits (`len as usize`).
u32_from_be_bytes(b) == <<0, 0, b[1] * 256 + b[2], b[3] * 256 + b[4]>>

\* u64::from_be_bytes
u64_from_be_bytes(b) ==
    <<b[1] * 256 + b[2], b[3] * 256 + b[4], b[5] * 256 + b[6], b[7] * 256 + b[8]>>

\* u32::to_be_bytes and u64::to_be_bytes of a limb value (used to build inputs).
u32_to_be_bytes(x) == <<x[3] \div 256, x[3] % 256, x[4] \div 256, x[4] % 256>>

u64_to_be_bytes(x) ==
    <<x[1] \div 256, x[1] % 256, x[2] \div 256, x[2] % 256,
      x[3] \div 256, x[3] % 256, x[4] \div 256, x[4] % 256>>

\* b"jumb" and b"jumd"
SUPER_BOX_TYPE == <<106, 117, 109, 98>>

DESCRIPTION_BOX_TYPE == <<106, 117, 109, 100>>

(***************************************************************************)
(* The byte source: std::io::Cursor over `data`, at position p             *)
(***************************************************************************)
\* Bytes left at p: Cursor reads from min(p, len) on.
Remaining(data, p) ==
    IF U64Le(p, U64(Len(data))) THEN Len(data) - Nat32(p) ELSE 0

\* read_exact(n) succeeds iff n bytes are left.
CanReadExact(data, p, n) == Remaining(data, p) >= n

ReadBytes(data, p, n) == SubSeq(data, Nat32(p) + 1, Nat32(p) + n)

(***************************************************************************)
(* InputData: a span of bytes, Borrowed from the buffer or Lazy            *)
(***************************************************************************)
\* InputData::Borrowed(&buffer[start .. start + len]): `start` is the distance of
\* the slice's first byte from the buffer's first byte (its address).
Borrowed(start, len) == [kind |-> "Borrowed", start |-> start, len |-> len]

\* InputData::Borrowed(&[]): the empty static slice, which lies in no buffer.
BorrowedEmptyStatic == [kind |-> "Borrowed", start |-> -1, len |-> 0]

\* InputData::Lazy(InputSlice::new(reader, offset, len))
Lazy(offset, len) == [kind |-> "Lazy", offset |-> offset, len |-> len]

(***************************************************************************)
(* Results                                                                 *)
(***************************************************************************)
IoError == [kind |-> "IoError"]

InvalidBoxLength(v) == [kind |-> "InvalidBoxLength", value |-> v]

\* An arithmetic overflow in a build with overflow checks: the thread panics.
Panic == [kind |-> "Panic"]

\* x + y as the build computes it: [ok, val]; not ok is a panic.
CheckedAdd(x, y, dbg) ==
    LET s == U64Add(x, y)
    IN  [ok |-> ~(dbg /\ s.overflow), val |-> s.val]

(***************************************************************************)
(* DataBox: the box header decoder                                         *)
(***************************************************************************)
NewDataBox(tbox, data, original) ==
    [tbox |-> tbox, data |-> data, original |-> original]

\* A slice of the buffer: its first byte's distance from the buffer's first byte,
\* and its length.
Slice(start, len) == [start |-> start, len |-> len]

SliceBytes(buf, sl) == SubSeq(buf, sl.start + 1, sl.start + sl.len)

\* The span constructors handed to from_source.  from_slice's closure captures
\* the slice being parsed; from_reader's captures the reader.
SliceMode(sl) == [lazy |-> FALSE, base |-> sl.start, n |-> sl.len]

ReaderMode == [lazy |-> TRUE]

\* from_slice's closure |offset, len|, for the slice `mode` describes.
slice_input_data(mode, offset, len, dbg) ==
    LET end == U64Add(offset, len)
    IN  IF end.overflow
        THEN \* `start + len` overflows: a panic with overflow checks; without
             \* them end wraps below start and the slice index panics, unless
             \* end lies past the input.
             IF dbg \/ U64Le(end.val, U64(mode.n)) THEN Panic ELSE BorrowedEmptyStatic
        ELSE IF U64Le(end.val, U64(mode.n))
             THEN Borrowed(mode.base + Nat32(offset), Nat32(len))
             ELSE BorrowedEmptyStatic

create_input_data(mode, offset, len, dbg) ==
    IF mode.lazy THEN Lazy(offset, len) ELSE slice_input_data(mode, offset, len, dbg)

\* Mutant of read_to_end_lengths: the payload length is taken from the start of
\* the box, not from the end of the header.
read_to_end_lengths_from_start(start_offset, current, end) ==
    <<current, U64Sub(end, start_offset).val, U64Sub(end, start_offset).val>>

\* The three arms of `match len` that yield (data_offset, data_len, original_len).
read_to_end_lengths(start_offset, current, end) ==
    <<current, U64Sub(end, current).val, U64Sub(end, start_offset).val>>

\* Mutant of extended_lengths: the plain header's 8 bytes are subtracted.
extended_lengths_minus_8(current, xl) == <<current, U64Sub(xl, U64(8)).val, xl>>

extended_lengths(current, xl) == <<current, U64Sub(xl, U64(16)).val, xl>>

plain_lengths(current, len) == <<current, U64Sub(len, U64(8)).val, len>>

\* Mutant of xl_too_small: the plain header's minimum is used.
xl_too_small_below_8(xl) == U64Lt(xl, U64(8))

\* `if xl < 16`
xl_too_small(xl) == U64Lt(xl, U64(16))

\* `2..=7`
reserved_length(len) == U64Le(U64(2), len) /\ U64Le(len, U64(7))

\* `start_offset + original_len as u64`, the position the source is sought to.
end_of_box(start_offset, original_len, dbg) ==
    CheckedAdd(start_offset, original_len, dbg)

\* The tail of from_source: advance to the end of the box and build the spans.
finish_box(mode, start_offset, tbox, lens, dbg) ==
    LET e == end_of_box(start_offset, lens[3], dbg)
        d == create_input_data(mode, lens[1], lens[2], dbg)
        o == create_input_data(mode, start_offset, lens[3], dbg)
    IN  IF ~e.ok \/ d = Panic \/ o = Panic
        THEN [kind |-> "Panic", pos |-> lens[1]]
        ELSE [kind |-> "Ok", box |-> NewDataBox(tbox, d, o), pos |-> e.val]

\* DataBox::from_source on a source holding `data` and standing at start_offset.
\* Ok carries the box and `pos`, the position the source is left at; an error
\* carries `pos`, the position reached by the reads that succeeded.
from_source(data, start_offset, mode, dbg) ==
    IF ~CanReadExact(data, start_offset, 4)
    THEN [kind |-> "IoError", pos |-> start_offset]
    ELSE
    LET len == u32_from_be_bytes(ReadBytes(data, start_offset, 4))
        p4  == U64Add(start_offset, U64(4)).val
    IN
    IF ~CanReadExact(data, p4, 4)
    THEN [kind |-> "IoError", pos |-> p4]
    ELSE
    LET tbox == ReadBytes(data, p4, 4)
        p8   == U64Add(p4, U64(4)).val
    IN
    CASE len = U64(0) ->
            \* Read to end of stream.
            finish_box(mode, start_offset, tbox,
                       read_to_end_lengths(start_offset, p8, U64(Len(data))), dbg)
      [] len = U64(1) ->
            \* Extended length: read 8-byte length field.
            IF ~CanReadExact(data, p8, 8)
            THEN [kind |-> "IoError", pos |-> p8]
            ELSE
            LET xl      == u64_from_be_bytes(ReadBytes(data, p8, 8))
                current == U64Add(p8, U64(8)).val
            IN  IF xl_too_small(xl)
                THEN [kind |-> "InvalidBoxLength", value |-> xl, pos |-> current]
                ELSE finish_box(mode, start_offset, tbox,
                                extended_lengths(current, xl), dbg)
      [] reserved_length(len) ->
            [kind |-> "InvalidBoxLength", value |-> len, pos |-> p8]
      [] OTHER ->
            finish_box(mode, start_offset, tbox, plain_lengths(p8, len), dbg)

\* Mutant of exceeds_available: off by one.
exceeds_available_off_by_one(p, n) == U64Lt(U64(n + 1), p)

\* `if pos > original.len()`: the box claimed more data than available.
exceeds_available(p, n) == U64Lt(U64(n), p)

\* A result without the position of the source.
WithoutPos(r) == [k \in DOMAIN r \ {"pos"} |-> r[k]]

\* The end of DataBox::from_slice: the bounds check on what from_source returned
\* (r) and the remainder of the input.
checked_slice_box(sl, r) ==
    IF r.kind = "Ok"
    THEN IF exceeds_available(r.pos, sl.len)
         THEN IoError
         ELSE [kind |-> "Ok", box |-> r.box,
               rem  |-> Slice(sl.start + Nat32(r.pos), sl.len - Nat32(r.pos))]
    ELSE WithoutPos(r)

\* DataBox::from_slice(original), where original = buf[sl.start .. sl.start + sl.len].
\* Ok carries the box and `rem`, the remainder of the input.
DataBox_from_slice(buf, sl, dbg) ==
    checked_slice_box(sl, from_source(SliceBytes(buf, sl), U64Zero, SliceMode(sl), dbg))

\* DataBox::from_reader(reader) with the reader over `data` at position p.
DataBox_from_reader(data, p, dbg) == from_source(data, p, ReaderMode, dbg)

(***************************************************************************)
(* DescriptionBox: the description-box decoder                             *)
(***************************************************************************)
None == <<>>

Some(v) == <<v>>

Incomplete(n) == [kind |-> "Incomplete", missing |-> n]

Utf8Error == [kind |-> "Utf8Error"]

InvalidDescriptionBoxType(tbox) ==
    [kind |-> "InvalidDescriptionBoxType", tbox |-> tbox]

InvalidSuperBoxType(tbox) == [kind |-> "InvalidSuperBoxType", tbox |-> tbox]

\* The toggle bits (bit0 requestable .. bit4 has-private-box).
REQUESTABLE == 1

HAS_LABEL == 2

HAS_ID == 4

HAS_HASH == 8

HAS_PRIVATE_BOX == 16

\* Mutant of toggle_set: any bit of the toggle byte counts.
toggle_set_any_bit(toggles, bit) == toggles # 0

\* `toggles & bit != 0`, for a bit that is a power of two.
toggle_set(toggles, bit) == (toggles \div bit) % 2 = 1

\* core::str::from_utf8 accepts b: the well-formed UTF-8 byte sequences.
RECURSIVE utf8_valid(_)
utf8_valid(b) ==
    IF Len(b) = 0 THEN TRUE
    ELSE
    LET c == b[1]
        Cont(k) == Len(b) >= k /\ b[k] >= 128 /\ b[k] <= 191
        In(k, lo, hi) == Len(b) >= k /\ b[k] >= lo /\ b[k] <= hi
        Rest(n) == utf8_valid(SubSeq(b, n + 1, Len(b)))
    IN  CASE c <= 127 -> Rest(1)
          [] c >= 194 /\ c <= 223 -> Cont(2) /\ Rest(2)
          [] c = 224 -> In(2, 160, 191) /\ Cont(3) /\ Rest(3)
          [] (c >= 225 /\ c <= 236) \/ c \in {238, 239} ->
                Cont(2) /\ Cont(3) /\ Rest(3)
          [] c = 237 -> In(2, 128, 159) /\ Cont(3) /\ Rest(3)
          [] c = 240 -> In(2, 144, 191) /\ Cont(3) /\ Cont(4) /\ Rest(4)
          [] c >= 241 /\ c <= 243 -> Cont(2) /\ Cont(3) /\ Cont(4) /\ Rest(4)
          [] c = 244 -> In(2, 128, 143) /\ Cont(3) /\ Cont(4) /\ Rest(4)
          [] OTHER -> FALSE

\* Mutant of null_position: a label without NUL ends with the payload.
null_position_or_end(b) ==
    IF \E k \in 1..Len(b) : b[k] = 0
    THEN (CHOOSE k \in 1..Len(b) : b[k] = 0 /\ \A j \in 1..(k - 1) : b[j] # 0) - 1
    ELSE Len(b)

\* `i.iter().position(|&b| b == 0)`: the index (from 0) of the first NUL, or -1.
null_position(b) ==
    IF \E k \in 1..Len(b) : b[k] = 0
    THEN (CHOOSE k \in 1..Len(b) : b[k] = 0 /\ \A j \in 1..(k - 1) : b[j] # 0) - 1
    ELSE -1

\* The fields of a description box decoded from the payload bytes `d`, up to
\* the private box: Ok carries the fields and `used`, the number of bytes read.
description_fields(d) ==
    IF Len(d) < 16 THEN Incomplete(16 - Len(d))
    ELSE IF Len(d) = 16 THEN Incomplete(1)
    ELSE
    LET uuid    == SubSeq(d, 1, 16)
        toggles == d[17]
        i1      == SubSeq(d, 18, Len(d))
        has_label == toggle_set(toggles, HAS_LABEL)
        null_pos  == null_position(i1)
    IN
    IF has_label /\ null_pos < 0 THEN Incomplete(1)
    ELSE IF has_label /\ ~utf8_valid(SubSeq(i1, 1, null_pos)) THEN Utf8Error
    ELSE
    LET label == IF has_label THEN Some(SubSeq(i1, 1, null_pos)) ELSE None
        i2    == IF has_label THEN SubSeq(i1, null_pos + 2, Len(i1)) ELSE i1
        has_id == toggle_set(toggles, HAS_ID)
    IN
    IF has_id /\ Len(i2) < 4 THEN Incomplete(4 - Len(i2))
    ELSE
    LET id == IF has_id THEN Some(u32_from_be_bytes(SubSeq(i2, 1, 4))) ELSE None
        i3 == IF has_id THEN SubSeq(i2, 5, Len(i2)) ELSE i2
        has_hash == toggle_set(toggles, HAS_HASH)
    IN
    IF has_hash /\ Len(i3) < 32 THEN Incomplete(32 - Len(i3))
    ELSE
    LET hash == IF has_hash THEN Some(SubSeq(i3, 1, 32)) ELSE None
        i4   == IF has_hash THEN SubSeq(i3, 33, Len(i3)) ELSE i3
    IN  [kind |-> "Ok",
         uuid |-> uuid,
         label |-> label,
         requestable |-> toggle_set(toggles, REQUESTABLE),
         id |-> id,
         hash |-> hash,
         has_private |-> toggle_set(toggles, HAS_PRIVATE_BOX),
         used |-> Len(d) - Len(i4)]

NewDescriptionBox(f, private, original) ==
    [uuid |-> f.uuid, label |-> f.label, requestable |-> f.requestable,
     id |-> f.id, hash |-> f.hash, private |-> private, original |-> original]

\* The end of from_box with a private box: p is what DataBox::from_slice
\* returned for it.
description_with_private(f, boxx, p) ==
    IF p.kind # "Ok" THEN p
    ELSE [kind |-> "Ok",
          desc |-> NewDescriptionBox(f, Some(p.box), boxx.original),
          rem  |-> p.rem]

\* from_box after the fields f were decoded: the private box, if any, and the
\* description.
description_from_fields(buf, boxx, f, dbg) ==
    IF f.kind # "Ok" THEN f
    ELSE IF f.has_private
    THEN description_with_private(
             f, boxx,
             DataBox_from_slice(
                 buf, Slice(boxx.data.start + f.used, boxx.data.len - f.used), dbg))
    ELSE [kind |-> "Ok",
          desc |-> NewDescriptionBox(f, None, boxx.original),
          rem  |-> Slice(boxx.data.start + f.used, boxx.data.len - f.used)]

\* DescriptionBox::from_box(boxx) for a box parsed from the buffer.  Ok carries
\* the description and `rem`, what is left of the box's payload.
DescriptionBox_from_box(buf, boxx, dbg) ==
    IF boxx.tbox # DESCRIPTION_BOX_TYPE
    THEN InvalidDescriptionBoxType(boxx.tbox)
    ELSE description_from_fields(
             buf, boxx,
             description_fields(SliceBytes(buf, Slice(boxx.data.start, boxx.data.len))),
             dbg)

\* The end of from_slice: d is what from_box returned, rem the remainder after
\* the description box.
description_and_remainder(d, rem) ==
    IF d.kind # "Ok" THEN d
    ELSE [kind |-> "Ok", desc |-> d.desc, rem |-> rem]

\* from_slice after DataBox::from_slice returned b.
description_of_box(buf, b, dbg) ==
    IF b.kind # "Ok" THEN b
    ELSE description_and_remainder(DescriptionBox_from_box(buf, b.box, dbg), b.rem)

\* DescriptionBox::from_slice(i): Ok carries the description and `rem`, the
\* remainder of i after the description box.
DescriptionBox_from_slice(buf, i, dbg) ==
    description_of_box(buf, DataBox_from_slice(buf, i, dbg), dbg)

(***************************************************************************)
(* SuperBox: the depth-limited tree builder, slice mode                    *)
(***************************************************************************)
ChildSuperBox(sbox) == [variant |-> "SuperBox", sbox |-> sbox]

ChildDataBox(dbox) == [variant |-> "DataBox", dbox |-> dbox]

NewSuperBox(desc, child_boxes, original) ==
    [desc |-> desc, child_boxes |-> child_boxes, original |-> original]

RECURSIVE boxes_from_slice_loop(_, _, _, _)

\* One turn of the loop: r is what DataBox::from_slice returned.
boxes_from_slice_push(buf, r, result, dbg) ==
    IF r.kind # "Ok" THEN r
    ELSE boxes_from_slice_loop(buf, r.rem, Append(result, r.box), dbg)

\* boxes_from_slice: parse boxes from the slice until it is empty.
boxes_from_slice_loop(buf, i, result, dbg) ==
    IF i.len = 0
    THEN [kind |-> "Ok", boxes |-> result, rem |-> i]
    ELSE boxes_from_slice_push(buf, DataBox_from_slice(buf, i, dbg), result, dbg)

boxes_from_slice(buf, i, dbg) == boxes_from_slice_loop(buf, i, <<>>, dbg)

\* Mutant of parse_as_super_box: the depth budget is not looked at.
parse_as_super_box_any_depth(d, depth_limit) == d.tbox = SUPER_BOX_TYPE

\* `d.tbox == SUPER_BOX_TYPE && depth_limit > 0`
parse_as_super_box(d, depth_limit) ==
    d.tbox = SUPER_BOX_TYPE /\ depth_limit # U64Zero

RECURSIVE SuperBox_from_data_box_with_depth_limit(_, _, _, _)
RECURSIVE children_from_boxes(_, _, _, _, _)

\* Mutant of child_super_box: a nested superbox that fails to parse is kept as
\* an unparsed data box.
child_super_box_or_data_box(buf, boxes, depth_limit, result, r, dbg) ==
    children_from_boxes(buf, Tail(boxes), depth_limit,
                        Append(result, IF r.kind # "Ok" THEN ChildDataBox(Head(boxes))
                                       ELSE ChildSuperBox(r.sbox)), dbg)

\* One step of the collect: r is what the recursive call returned for the head
\* of boxes.
child_super_box(buf, boxes, depth_limit, result, r, dbg) ==
    IF r.kind # "Ok" THEN r
    ELSE children_from_boxes(buf, Tail(boxes), depth_limit,
                             Append(result, ChildSuperBox(r.sbox)), dbg)

\* The map over the boxes of boxes_from_slice and its collect into a Result: the
\* first error ends it.
children_from_boxes(buf, boxes, depth_limit, result, dbg) ==
    IF boxes = <<>>
    THEN [kind |-> "Ok", child_boxes |-> result]
    ELSE IF parse_as_super_box(Head(boxes), depth_limit)
    THEN child_super_box(
             buf, boxes, depth_limit, result,
             SuperBox_from_data_box_with_depth_limit(
                 buf, Head(boxes), U64Sub(depth_limit, U64(1)).val, dbg),
             dbg)
    ELSE children_from_boxes(buf, Tail(boxes), depth_limit,
                             Append(result, ChildDataBox(Head(boxes))), dbg)

\* The Ok((Self { .. }, i)) of from_data_box_with_depth_limit: cr is the
\* collected children.
super_box_of_children(data_box, desc, rem, cr) ==
    IF cr.kind # "Ok" THEN cr
    ELSE [kind |-> "Ok",
          sbox |-> NewSuperBox(desc, cr.child_boxes, data_box.original),
          rem  |-> rem]

\* from_data_box_with_depth_limit after boxes_from_slice returned br.
super_box_of_boxes(buf, data_box, depth_limit, desc, br, dbg) ==
    IF br.kind # "Ok" THEN br
    ELSE super_box_of_children(
             data_box, desc, br.rem,
             children_from_boxes(buf, br.boxes, depth_limit, <<>>, dbg))

\* from_data_box_with_depth_limit after DescriptionBox::from_slice returned dr.
super_box_after_description(buf, data_box, depth_limit, dr, dbg) ==
    IF dr.kind # "Ok" THEN dr
    ELSE super_box_of_boxes(buf, data_box, depth_limit, dr.desc,
                            boxes_from_slice(buf, dr.rem, dbg), dbg)

\* Mutant of SuperBox_from_data_box_with_depth_limit: the type is not checked.
SuperBox_from_data_box_of_any_type(buf, data_box, depth_limit, dbg) ==
    IF data_box.data.kind # "Borrowed"
    THEN IoError
    ELSE super_box_after_description(
             buf, data_box, depth_limit,
             DescriptionBox_from_slice(
                 buf, Slice(data_box.data.start, data_box.data.len), dbg),
             dbg)

\* SuperBox::from_data_box_with_depth_limit(data_box, depth_limit).  Ok carries
\* the superbox and `rem`, the remainder of the box's payload.
SuperBox_from_data_box_with_depth_limit(buf, data_box, depth_limit, dbg) ==
    IF data_box.tbox # SUPER_BOX_TYPE
    THEN InvalidSuperBoxType(data_box.tbox)
    ELSE IF data_box.data.kind # "Borrowed"
    THEN IoError
    ELSE super_box_after_description(
             buf, data_box, depth_limit,
             DescriptionBox_from_slice(
                 buf, Slice(data_box.data.start, data_box.data.len), dbg),
             dbg)

\* Mutant of SuperBox_from_data_box: the children are not descended into.
SuperBox_from_data_box_shallow(buf, data_box, dbg) ==
    SuperBox_from_data_box_with_depth_limit(buf, data_box, U64Zero, dbg)

\* SuperBox::from_data_box(data_box): without limit.
SuperBox_from_data_box(buf, data_box, dbg) ==
    SuperBox_from_data_box_with_depth_limit(buf, data_box, U64Max, dbg)

\* from_slice_with_depth_limit returns the superbox with the remainder of i.
super_box_and_remainder(r, rem) ==
    IF r.kind # "Ok" THEN r
    ELSE [kind |-> "Ok", sbox |-> r.sbox, rem |-> rem]

\* from_slice_with_depth_limit after DataBox::from_slice returned b.
super_box_of_data_box(buf, b, depth_limit, dbg) ==
    IF b.kind # "Ok" THEN b
    ELSE super_box_and_remainder(
             SuperBox_from_data_box_with_depth_limit(buf, b.box, depth_limit, dbg),
             b.rem)

\* SuperBox::from_slice_with_depth_limit(i, depth_limit)
SuperBox_from_slice_with_depth_limit(buf, i, depth_limit, dbg) ==
    super_box_of_data_box(buf, DataBox_from_slice(buf, i, dbg), depth_limit, dbg)

\* SuperBox::from_slice(i)
SuperBox_from_slice(buf, i, dbg) ==
    SuperBox_from_slice_with_depth_limit(buf, i, U64Max, dbg)

\* Mutant of split_once: the label is split at its last '/'.
split_once_at_last(label) ==
    IF \E i \in 1..Len(label) : label[i] = 47
    THEN LET i == CHOOSE i \in 1..Len(label) :
                      label[i] = 47 /\ \A j \in (i + 1)..Len(label) : label[j] # 47
         IN  Some(<<SubSeq(label, 1, i - 1), SubSeq(label, i + 1, Len(label))>>)
    ELSE None

\* `label.split_once('/')`: None, or Some of the text before the first '/' and
\* the text after it.
split_once(label) ==
    IF \E i \in 1..Len(label) : label[i] = 47
    THEN LET i == CHOOSE i \in 1..Len(label) :
                      label[i] = 47 /\ \A j \in 1..(i - 1) : label[j] # 47
         IN  Some(<<SubSeq(label, 1, i - 1), SubSeq(label, i + 1, Len(label))>>)
    ELSE None

\* Mutant of matches_label: the requestable flag is not looked at.
matches_label_any_requestable(child_box, label) ==
    /\ child_box.variant = "SuperBox"
    /\ child_box.sbox.desc.label # None
    /\ child_box.sbox.desc.label[1] = label

\* The filter of find_by_label: a superbox child whose label is the segment and
\* which is requestable.
matches_label(child_box, label) ==
    /\ child_box.variant = "SuperBox"
    /\ child_box.sbox.desc.label # None
    /\ child_box.sbox.desc.label[1] = label
    /\ child_box.sbox.desc.requestable

\* SuperBox::find_by_label(&self, label): None or Some(superbox).
RECURSIVE find_by_label(_, _)
find_by_label(self, label) ==
    LET sp      == split_once(label)
        segment == IF sp # None THEN sp[1][1] ELSE label
        matching_children ==
            SelectSeq(self.child_boxes, LAMBDA c : matches_label(c, segment))
    IN  IF matching_children # <<>>
        THEN IF Len(matching_children) = 1
             THEN IF sp # None
                  THEN find_by_label(matching_children[1].sbox, sp[1][2])
                  ELSE Some(matching_children[1].sbox)
             ELSE None
        ELSE None

(***************************************************************************)
(* Stream mode: lazy spans over the shared reader                          *)
(***************************************************************************)
\* 2^63: a Vec of more than isize::MAX bytes cannot be asked for.
CapacityLimit == <<Limb \div 2, 0, 0, 0>>

\* InputSlice::to_vec on a reader over `data`: seek to the span's offset, then
\* read_exact its length.  Ok carries the bytes; every result carries `pos`, the
\* reader's position afterwards.
InputSlice_to_vec(data, span) ==
    IF U64Le(CapacityLimit, span.len)
    THEN [kind |-> "Panic", pos |-> span.offset]
    ELSE IF /\ U64Le(span.offset, U64(Len(data)))
            /\ U64Le(span.len, U64Sub(U64(Len(data)), span.offset).val)
    THEN [kind  |-> "Ok",
          bytes |-> ReadBytes(data, span.offset, Nat32(span.len)),
          pos   |-> U64Add(span.offset, span.len).val]
    ELSE [kind |-> "IoError", pos |-> span.offset]

\* A result with the reader's position added.
WithPos(r, p) == [k \in DOMAIN r \cup {"pos"} |-> IF k = "pos" THEN p ELSE r[k]]

\* The description of a stream-mode box with a private box: q is what
\* DataBox::from_reader returned at the private box's place in the stream.
description_with_private_reader(f, boxx, q) ==
    IF q.kind # "Ok" THEN q
    ELSE [kind |-> "Ok",
          desc |-> NewDescriptionBox(f, Some(q.box), boxx.original),
          pos  |-> q.pos]

\* The description after the fields f were decoded from the owned payload; p is
\* the reader's position after the payload was read.
description_from_fields_reader(data, boxx, f, p, dbg) ==
    IF f.kind # "Ok" THEN WithPos(f, p)
    ELSE IF f.has_private
    THEN description_with_private_reader(
             f, boxx,
             DataBox_from_reader(data, U64Add(boxx.data.offset, U64(f.used)).val, dbg))
    ELSE [kind |-> "Ok",
          desc |-> NewDescriptionBox(f, None, boxx.original),
          pos  |-> p]

\* The description of `boxx` after its payload was materialized: v is what
\* to_vec returned.
description_of_vec(data, boxx, v, dbg) ==
    IF v.kind # "Ok" THEN v
    ELSE description_from_fields_reader(
             data, boxx, description_fields(v.bytes), v.pos, dbg)

\* The description of the box b that DataBox::from_reader returned.
description_of_box_reader(data, b, dbg) ==
    IF b.kind # "Ok" THEN b
    ELSE IF b.box.tbox # DESCRIPTION_BOX_TYPE
    THEN WithPos(InvalidDescriptionBoxType(b.box.tbox), b.pos)
    ELSE description_of_vec(data, b.box, InputSlice_to_vec(data, b.box.data), dbg)

\* DescriptionBox::from_reader(reader) with the reader at position p: the box
\* header is decoded by DataBox::from_reader, the payload is materialized with
\* to_vec and the fields are decoded from the owned bytes; a private box is
\* decoded by DataBox::from_reader at its place in the stream.
DescriptionBox_from_reader(data, p, dbg) ==
    description_of_box_reader(data, DataBox_from_reader(data, p, dbg), dbg)

\* The loop of boxes_from_reader never ends: the reader came back to a position
\* at which a box of this loop was read before.
Diverges(p) == [kind |-> "Diverges", pos |-> p]

RECURSIVE boxes_from_reader_loop(_, _, _, _, _, _)

\* One turn of the loop: r is what DataBox::from_reader returned at p.
boxes_from_reader_push(data, p, end_offset, result, seen, r, dbg) ==
    IF r.kind # "Ok" THEN r
    ELSE boxes_from_reader_loop(data, r.pos, end_offset,
                                Append(result, r.box), seen \cup {p}, dbg)

\* boxes_from_reader: parse boxes until the reader reaches end_offset.  `seen`
\* holds the positions at which this loop has read a box.
boxes_from_reader_loop(data, p, end_offset, result, seen, dbg) ==
    IF U64Le(end_offset, p)
    THEN [kind |-> "Ok", boxes |-> result, pos |-> p]
    ELSE IF p \in seen
    THEN Diverges(p)
    ELSE boxes_from_reader_push(data, p, end_offset, result, seen,
                                DataBox_from_reader(data, p, dbg), dbg)

boxes_from_reader(data, p, end_offset, dbg) ==
    boxes_from_reader_loop(data, p, end_offset, <<>>, {}, dbg)

RECURSIVE from_data_box_with_depth_limit_reader(_, _, _, _, _)
RECURSIVE children_from_boxes_reader(_, _, _, _, _, _)

\* One step of the collect: r is what the recursive call returned for the head
\* of boxes; the reader is where that call left it.
child_super_box_reader(data, boxes, depth_limit, result, r, dbg) ==
    IF r.kind # "Ok" THEN r
    ELSE children_from_boxes_reader(
             data, Tail(boxes), depth_limit,
             Append(result, ChildSuperBox(r.sbox)), r.pos, dbg)

\* The map over the boxes of boxes_from_reader and its collect into a Result; p
\* is the reader's position, which each nested superbox moves.
children_from_boxes_reader(data, boxes, depth_limit, result, p, dbg) ==
    IF boxes = <<>>
    THEN [kind |-> "Ok", child_boxes |-> result, pos |-> p]
    ELSE IF parse_as_super_box(Head(boxes), depth_limit)
    THEN child_super_box_reader(
             data, boxes, depth_limit, result,
             from_data_box_with_depth_limit_reader(
                 data, Head(boxes), U64Sub(depth_limit, U64(1)).val, p, dbg),
             dbg)
    ELSE children_from_boxes_reader(
             data, Tail(boxes), depth_limit,
             Append(result, ChildDataBox(Head(boxes))), p, dbg)

\* The Ok(Self { .. }) of from_data_box_with_depth_limit_reader: cr is the
\* collected children and the position the reader was left at.
super_box_of_children_reader(data_box, desc, cr) ==
    IF cr.kind # "Ok" THEN cr
    ELSE [kind |-> "Ok",
          sbox |-> NewSuperBox(desc, cr.child_boxes, data_box.original),
          pos  |-> cr.pos]

\* from_data_box_with_depth_limit_reader after boxes_from_reader returned br.
super_box_of_boxes_reader(data, data_box, depth_limit, desc, br, dbg) ==
    IF br.kind # "Ok" THEN br
    ELSE super_box_of_children_reader(
             data_box, desc,
             children_from_boxes_reader(data, br.boxes, depth_limit, <<>>,
                                        br.pos, dbg))

\* from_data_box_with_depth_limit_reader after DescriptionBox::from_reader
\* returned dr.
super_box_after_description_reader(data, data_box, depth_limit, data_end_offset, dr, dbg) ==
    IF dr.kind # "Ok" THEN dr
    ELSE super_box_of_boxes_reader(
             data, data_box, depth_limit, dr.desc,
             boxes_from_reader(data, dr.pos, data_end_offset, dbg), dbg)

\* from_data_box_with_depth_limit_reader once data_end_offset was computed (e):
\* seek to the start of the data and read the description box.
super_box_of_span_reader(data, data_box, depth_limit, e, p, dbg) ==
    IF ~e.ok THEN [kind |-> "Panic", pos |-> p]
    ELSE super_box_after_description_reader(
             data, data_box, depth_limit, e.val,
             DescriptionBox_from_reader(data, data_box.data.offset, dbg), dbg)

\* SuperBox::from_data_box_with_depth_limit_reader(data_box, depth_limit, reader)
\* with the reader at position p.  Every result carries `pos`, the position the
\* reader is left at.
from_data_box_with_depth_limit_reader(data, data_box, depth_limit, p, dbg) ==
    IF data_box.tbox # SUPER_BOX_TYPE
    THEN WithPos(InvalidSuperBoxType(data_box.tbox), p)
    ELSE IF data_box.data.kind # "Lazy"
    THEN [kind |-> "IoError", pos |-> p]
    ELSE super_box_of_span_reader(
             data, data_box, depth_limit,
             CheckedAdd(data_box.data.offset, data_box.data.len, dbg), p, dbg)

\* from_reader_with_depth_limit after DataBox::from_reader returned b.
super_box_of_data_box_reader(data, b, depth_limit, dbg) ==
    IF b.kind # "Ok" THEN b
    ELSE from_data_box_with_depth_limit_reader(data, b.box, depth_limit, b.pos, dbg)

\* SuperBox::from_reader_with_depth_limit(reader, depth_limit), reader at p.
SuperBox_from_reader_with_depth_limit(data, p, depth_limit, dbg) ==
    super_box_of_data_box_reader(data, DataBox_from_reader(data, p, dbg),
                                 depth_limit, dbg)

\* SuperBox::from_reader(reader)
SuperBox_from_reader(data, p, dbg) ==
    SuperBox_from_reader_with_depth_limit(data, p, U64Max, dbg)

(***************************************************************************)
(* Bounds of the model                                                     *)
(***************************************************************************)
\* Bytes that follow the 16 header bytes of a generated box input.
MaxTail == 6

\* Bytes that precede the header in a generated stream (the header then starts
\* at a nonzero offset of the reader).
MaxPad == 1

\* Levels of superboxes nested below the root superbox of a generated tree.
MaxNest == 3

(***************************************************************************)
(* Inputs of the header decoder                                            *)
(***************************************************************************)
\* Values of the 4-byte length field, as limbs; the last two are 2^31 and 2^32 - 1.
LenFields ==
    {U64(0), U64(1), U64(2), U64(7), U64(8), U64(9), U64(12), U64(16), U64(17),
     U64(20), U64(16 + MaxTail), <<0, 0, 32768, 0>>, <<0, 0, Limb - 1, Limb - 1>>}

\* Values of the 8 bytes after the type (the extended length when L = 1).
XLFields ==
    {U64(0), U64(15), U64(16), U64(17), U64(20), U64(16 + MaxTail),
     <<0, 1, 0, 0>>, <<Limb - 1, Limb - 1, Limb - 1, Limb - 2>>, U64Max}

BoxTypes == {SUPER_BOX_TYPE, <<117, 117, 105, 100>>}

\* n payload bytes, all different: 16, 17, ...
Fill(n) == [i \in 1..n |-> 15 + i]

Pad(k) == [i \in 1..k |-> 170]

FullBoxInput(L, t, X) ==
    u32_to_be_bytes(L) \o t \o u64_to_be_bytes(X) \o Fill(MaxTail)

\* Every prefix of every full input (truncated headers and payloads included),
\* behind 0..MaxPad bytes of padding.
BoxInputs ==
    UNION { { Pad(k) \o SubSeq(FullBoxInput(L, t, X), 1, m) :
                k \in 0..MaxPad, m \in 0..(16 + MaxTail), t \in BoxTypes,
                X \in IF L = U64(1) THEN XLFields ELSE {U64(16 + MaxTail), U64Max} } :
            L \in LenFields }

NoResult == [kind |-> "None"]

(***************************************************************************)
(* Specification of the header decoder: one buffer, parsed as a slice and  *)
(* read as a stream through one reader                                     *)
(***************************************************************************)
InitBox ==
    /\ input \in BoxInputs
    /\ pos = U64Zero
    /\ op = "new"
    /\ res = NoResult
    /\ arg = U64Zero
    /\ debug_build \in BOOLEAN
    /\ held = {}
    /\ pbox = NoResult

\* DataBox::from_slice(&input)
CallDataBoxFromSlice ==
    /\ op' = "DataBox::from_slice"
    /\ res' = DataBox_from_slice(input, Slice(0, Len(input)), debug_build)
    /\ arg' = U64Zero
    /\ UNCHANGED <<kept, input, pos, debug_build>>

\* The caller positions the reader: reader.seek(SeekFrom::Start(p)).
CallSeek ==
    \E k \in 0..MaxPad :
        /\ pos' = U64(k)
        /\ op' = "seek"
        /\ res' = NoResult
        /\ arg' = U64(k)
        /\ UNCHANGED <<kept, input, debug_build>>

\* DataBox::from_reader(reader).  A read_exact that fails may leave the reader
\* where it was or at the end of the stream (the Read contract leaves it open
\* and the Cursor of the standard library has done both).
CallDataBoxFromReader ==
    LET r == DataBox_from_reader(input, pos, debug_build)
    IN  /\ op' = "DataBox::from_reader"
        /\ arg' = pos
        /\ IF r.kind = "IoError"
           THEN /\ res' = IoError
                /\ pos' \in {r.pos, U64(Len(input))}
           ELSE /\ res' = WithoutPos(r)
                /\ pos' = r.pos
        /\ UNCHANGED <<kept, input, debug_build>>

NextBox ==
    \/ CallDataBoxFromSlice
    \/ CallSeek
    \/ CallDataBoxFromReader

SpecBox == InitBox /\ [][NextBox]_vars

(***************************************************************************)
(* Claims about the header decoder (checked under SpecBox)                 *)
(***************************************************************************)
\* The fields of the header that starts k bytes into b, read off the bytes.
HeaderL(b, k) == u32_from_be_bytes(SubSeq(b, k + 1, k + 4))

HeaderType(b, k) == SubSeq(b, k + 5, k + 8)

HeaderXL(b, k) == u64_from_be_bytes(SubSeq(b, k + 9, k + 16))

\* What from_slice is to return for a box of header size H and total length T.
ExpectedSliceBox(b, H, T) ==
    [kind |-> "Ok",
     box  |-> [tbox |-> HeaderType(b, 0),
               data |-> Borrowed(H, T - H),
               original |-> Borrowed(0, T)],
     rem  |-> Slice(T, Len(b) - T)]

PlainLengthFits ==
    /\ Len(input) >= 8
    /\ U64Le(U64(8), HeaderL(input, 0))
    /\ U64Le(HeaderL(input, 0), U64(Len(input)))

ExtendedLengthFits ==
    /\ Len(input) >= 16
    /\ HeaderL(input, 0) = U64(1)
    /\ U64Le(U64(16), HeaderXL(input, 0))
    /\ U64Le(HeaderXL(input, 0), U64(Len(input)))

\* C1: a slice whose header declares a valid length that fits in the input
\* (L >= 8 with L <= input length, or L = 1 and 16 <= XL <= input length) parses
\* to tbox = input[4..8], original = input[0..T], data = input[H..T] and
\* remainder = input[T..], with (T, H) = (L, 8) or (XL, 16).
C1_ValidLengthParses ==
    op = "DataBox::from_slice" =>
        /\ PlainLengthFits =>
              res = ExpectedSliceBox(input, 8, Nat32(HeaderL(input, 0)))
        /\ ExtendedLengthFits =>
              res = ExpectedSliceBox(input, 16, Nat32(HeaderXL(input, 0)))

C1_Witness ==
    /\ op = "DataBox::from_slice"
    /\ ExtendedLengthFits
    /\ res.kind = "Ok"
    /\ res.box.data.len > 0
    /\ res.rem.len > 0

\* C2: a slice of at least 8 bytes whose length field is 0 parses to
\* data = input[8..], original = the whole input and an empty remainder.
C2_ZeroLengthReadsToEnd ==
    (op = "DataBox::from_slice" /\ Len(input) >= 8 /\ HeaderL(input, 0) = U64(0))
        => res = ExpectedSliceBox(input, 8, Len(input))

C2_Witness ==
    /\ op = "DataBox::from_slice"
    /\ Len(input) > 8
    /\ HeaderL(input, 0) = U64(0)
    /\ res.kind = "Ok"
    /\ res.box.data = Borrowed(8, Len(input) - 8)
    /\ res.rem.len = 0

\* The header that the last call decoded starts here: 0 for from_slice, the
\* reader's position before the call for from_reader.
DecodedAt == IF op = "DataBox::from_reader" THEN arg ELSE U64Zero

HeaderDecoded == op \in {"DataBox::from_slice", "DataBox::from_reader"}

\* C3: from_slice and from_reader return InvalidBoxLength(L) for every complete
\* 8-byte header with L in 2..=7, and InvalidBoxLength(XL) for L = 1 with an
\* 8-byte XL < 16, whatever bytes follow; no box is returned.
C3_InvalidLengthRejected ==
    (HeaderDecoded /\ Remaining(input, DecodedAt) >= 8) =>
        LET s  == Nat32(DecodedAt)
            L  == HeaderL(input, s)
        IN  /\ (U64Le(U64(2), L) /\ U64Le(L, U64(7)))
                  => res = [kind |-> "InvalidBoxLength", value |-> L]
            /\ (L = U64(1) /\ Remaining(input, DecodedAt) >= 16
                           /\ U64Lt(HeaderXL(input, s), U64(16)))
                  => res = [kind |-> "InvalidBoxLength", value |-> HeaderXL(input, s)]

C3_Witness ==
    /\ op = "DataBox::from_reader"
    /\ Remaining(input, arg) > 16
    /\ HeaderL(input, Nat32(arg)) = U64(1)
    /\ HeaderXL(input, Nat32(arg)) = U64(15)
    /\ res = [kind |-> "InvalidBoxLength", value |-> U64(15)]

\* The input ends inside the fixed header fields, or the declared total length
\* is greater than the input length.
TruncatedOrOverlong ==
    \/ Len(input) < 8
    \/ /\ HeaderL(input, 0) = U64(1)
       /\ \/ Len(input) < 16
          \/ U64Lt(U64(Len(input)), HeaderXL(input, 0))
    \/ /\ HeaderL(input, 0) \notin {U64(0), U64(1)}
       /\ U64Lt(U64(Len(input)), HeaderL(input, 0))

SpanInside(span, n) ==
    /\ span.kind = "Borrowed"
    /\ span.start >= 0
    /\ span.start + span.len <= n

\* C4: from_slice returns IoError whenever the input ends inside the fixed header
\* fields or the declared total length exceeds the input length, and never
\* returns a box whose data or original span reaches past the end of the input.
C4_SliceBoundsChecked ==
    op = "DataBox::from_slice" =>
        /\ TruncatedOrOverlong => res = IoError
        /\ res.kind = "Ok" =>
              /\ SpanInside(res.box.data, Len(input))
              /\ SpanInside(res.box.original, Len(input))

C4_Witness ==
    /\ op = "DataBox::from_slice"
    /\ Len(input) >= 16
    /\ HeaderL(input, 0) = U64(1)
    /\ U64Lt(U64(Len(input)), HeaderXL(input, 0))
    /\ res = IoError

\* A header with a valid length starts at the reader's position s: the total
\* length T and header size H the claim speaks of, or <<>> if there is none.
ValidHeaderAt(b, s) ==
    IF Remaining(b, s) < 8 THEN <<>>
    ELSE LET L == HeaderL(b, Nat32(s))
         IN  CASE L = U64(0) -> <<U64Sub(U64(Len(b)), s).val, U64(8)>>
               [] L = U64(1) ->
                    IF Remaining(b, s) >= 16 /\ U64Le(U64(16), HeaderXL(b, Nat32(s)))
                    THEN <<HeaderXL(b, Nat32(s)), U64(16)>>
                    ELSE <<>>
               [] U64Le(U64(8), L) -> <<L, U64(8)>>
               [] OTHER -> <<>>

\* C7: at a reader position s where a header with a valid length starts,
\* from_reader succeeds with data = Lazy(s + H, T - H), original = Lazy(s, T)
\* and leaves the reader at s + T (for L = 0, T = end of stream - s).
C7_ReaderSkipsPayload ==
    (op = "DataBox::from_reader" /\ ValidHeaderAt(input, arg) # <<>>) =>
        LET T == ValidHeaderAt(input, arg)[1]
            H == ValidHeaderAt(input, arg)[2]
        IN  /\ res.kind = "Ok"
            /\ res.box.data = Lazy(U64Add(arg, H).val, U64Sub(T, H).val)
            /\ res.box.original = Lazy(arg, T)
            /\ ~U64Add(arg, T).overflow
            /\ pos = U64Add(arg, T).val

\* C7 where s + T still fits in 64 bits.
C7_Representable ==
    (op = "DataBox::from_reader" /\ ValidHeaderAt(input, arg) # <<>>
        /\ ~U64Add(arg, ValidHeaderAt(input, arg)[1]).overflow)
    => C7_ReaderSkipsPayload

(***************************************************************************)
(* Inputs of the tree builder: encoded superboxes                          *)
(***************************************************************************)
\* A box with an 8-byte header around the payload.
EncBox(t, payload) == u32_to_be_bytes(U64(8 + Len(payload))) \o t \o payload

\* A box whose length field is 0 (it reaches to the end of its source).
EncBoxToEnd(t, payload) == u32_to_be_bytes(U64Zero) \o t \o payload

\* The type of the generated data boxes: 'json'.
JSON_BOX_TYPE == <<106, 115, 111, 110>>

\* A description box with an all-zero UUID; label is None or Some(bytes).
EncDesc(label, requestable) ==
    EncBox(DESCRIPTION_BOX_TYPE,
           [i \in 1..16 |-> 0]
           \o << (IF requestable THEN REQUESTABLE ELSE 0)
                 + (IF label # None THEN HAS_LABEL ELSE 0) >>
           \o (IF label # None THEN label[1] \o <<0>> ELSE <<>>))

RECURSIVE Concat(_)
Concat(seqs) == IF seqs = <<>> THEN <<>> ELSE Head(seqs) \o Concat(Tail(seqs))

\* A tree to encode: a node is [label, requestable, children], a leaf is "d" (a
\* data box), "e" (a data box with an empty payload) or "z" (a data box with
\* length field 0).
Node(label, requestable, children) ==
    [label |-> label, requestable |-> requestable, children |-> children]

Leaf(letter) == [leaf |-> letter]

IsLeaf(n) == "leaf" \in DOMAIN n

RECURSIVE EncTree(_)
EncTree(n) ==
    IF IsLeaf(n)
    THEN CASE n.leaf = "z" -> EncBoxToEnd(JSON_BOX_TYPE, <<125>>)
           [] n.leaf = "e" -> EncBox(JSON_BOX_TYPE, <<>>)
           [] OTHER        -> EncBox(JSON_BOX_TYPE, <<123>>)
    ELSE EncBox(SUPER_BOX_TYPE,
                EncDesc(n.label, n.requestable)
                \o Concat([i \in 1..Len(n.children) |-> EncTree(n.children[i])]))

LabelA == <<97>>

LabelB == <<98>>

\* Child lists without nested superboxes.
LeafPatterns == {<<>>, <<"d">>, <<"z">>}

\* Child lists with nested superboxes ("s"); the nested superboxes of one list
\* are equal.
NestPatterns == {<<"s", "d">>, <<"d", "s">>, <<"s", "s">>}

Instantiate(pattern, sub) ==
    [i \in 1..Len(pattern) |-> IF pattern[i] = "s" THEN sub ELSE Leaf(pattern[i])]

\* The trees with at most n levels of superboxes below the root.
RECURSIVE ShapeTrees(_)
ShapeTrees(n) ==
    { Node(Some(LabelA), TRUE, Instantiate(pt, <<>>)) : pt \in LeafPatterns }
    \cup (IF n = 0 THEN {}
          ELSE { Node(Some(LabelA), TRUE, Instantiate(pt, sub)) :
                     pt \in NestPatterns, sub \in ShapeTrees(n - 1) })

\* Trees for the label lookup: up to two children under the root, labelled
\* "a", "b" or not at all, requestable or not, over labelled grandchildren.
LabelledGrandchildren ==
    {<<>>,
     <<Node(Some(LabelB), TRUE, <<Node(Some(LabelB), TRUE, <<>>)>>)>>,
     <<Node(Some(LabelB), TRUE, <<>>), Node(Some(LabelB), TRUE, <<>>)>>,
     <<Node(Some(LabelB), FALSE, <<>>), Node(Some(LabelB), TRUE, <<>>)>>,
     <<Node(Some(<<>>), TRUE, <<>>), Leaf("d")>>}

LabelledChildren ==
    {Leaf("d")} \cup
    { Node(l, r, g) : l \in {None, Some(LabelA), Some(LabelB)},
                      r \in BOOLEAN, g \in LabelledGrandchildren }

LabelledTrees ==
    { Node(None, FALSE, <<c>>) : c \in LabelledChildren }
    \cup { Node(None, FALSE, <<c1, c2>>) :
               c1 \in LabelledChildren,
               c2 \in { c \in LabelledChildren :
                          IsLeaf(c) \/ (c.children = <<>> /\ c.label # None) } }

\* A stream: one superbox at offset 0, or padding, one superbox and a box
\* after it.
TreeInputs ==
    { IF k = 0 THEN EncTree(t)
               ELSE Pad(k) \o EncTree(t) \o EncBox(JSON_BOX_TYPE, <<>>) :
          k \in 0..MaxPad, t \in ShapeTrees(MaxNest) }

\* A buffer holding one labelled superbox.
FindInputs == { EncTree(t) : t \in LabelledTrees }

DepthLimits == { U64(d) : d \in 0..MaxNest } \cup {U64Max}

(***************************************************************************)
(* Specification of the tree builder: one buffer holding a superbox,       *)
(* parsed as a slice and as a stream, and re-parsed                         *)
(***************************************************************************)
\* The labels and paths that are looked up: "a", "b", "", "a/b", "a/", "/b"
\* and "a/b/b".
Queries ==
    {<<97>>, <<98>>, <<>>, <<97, 47, 98>>, <<97, 47>>, <<47, 98>>,
     <<97, 47, 98, 47, 98>>}

InitTree ==
    /\ input \in TreeInputs
    /\ pos = U64Zero
    /\ op = "new"
    /\ res = NoResult
    /\ arg = U64Zero
    /\ debug_build \in BOOLEAN
    /\ held = {}
    /\ pbox = NoResult

\* The client, as in examples/parse_from_slice.rs and parse_from_file.rs: it
\* has the buffer and parses it as a slice, or it positions the reader and
\* parses one superbox from it; then it works on the tree it got.
BeforeSliceParse == op = "new"

BeforeReaderParse == op \in {"new", "seek"}

TreeParsed ==
    /\ op \in {"SuperBox::from_slice_with_depth_limit",
               "SuperBox::from_reader_with_depth_limit"}
    /\ res.kind = "Ok"

\* SuperBox::from_slice_with_depth_limit(&input[k..], d); SuperBox::from_slice
\* is the call with d = usize::MAX.
CallSuperBoxFromSlice ==
    /\ BeforeSliceParse
    /\ \E k \in 0..MaxPad, d \in DepthLimits :
        /\ op' = "SuperBox::from_slice_with_depth_limit"
        /\ arg' = [start |-> U64(k), depth_limit |-> d]
        /\ res' = SuperBox_from_slice_with_depth_limit(
                      input, Slice(k, Len(input) - k), d, debug_build)
    /\ UNCHANGED <<kept, input, pos, debug_build>>

\* SuperBox::from_reader_with_depth_limit(reader, d); SuperBox::from_reader is
\* the call with d = usize::MAX.
CallSuperBoxFromReader ==
    /\ BeforeReaderParse
    /\ \E d \in DepthLimits :
        \E r \in {SuperBox_from_reader_with_depth_limit(input, pos, d, debug_build)} :
            /\ op' = "SuperBox::from_reader_with_depth_limit"
            /\ arg' = [start |-> pos, depth_limit |-> d]
            /\ res' = WithoutPos(r)
            /\ IF r.kind = "IoError"
               THEN pos' \in {r.pos, U64(Len(input))}
               ELSE pos' = r.pos
    /\ UNCHANGED <<kept, input, debug_build>>

\* The client re-parses what a depth limit left unparsed: every child that is a
\* DataBox of type 'jumb' is handed to SuperBox::from_data_box, at every level.
RECURSIVE reparse_children(_, _, _, _)

\* One child re-parsed (r) is appended and the rest is gone through.
reparse_push(buf, child_boxes, result, r, dbg) ==
    IF r.kind # "Ok" THEN r
    ELSE reparse_children(buf, Tail(child_boxes), Append(result, r.child), dbg)

\* A superbox child with its children re-parsed (cr).
reparsed_super_box(sbox, cr) ==
    IF cr.kind # "Ok" THEN cr
    ELSE [kind |-> "Ok",
          child |-> ChildSuperBox([sbox EXCEPT !.child_boxes = cr.child_boxes])]

\* A 'jumb' DataBox child re-parsed: sr is what SuperBox::from_data_box returned.
reparsed_data_box(sr) ==
    IF sr.kind # "Ok" THEN sr
    ELSE [kind |-> "Ok", child |-> ChildSuperBox(sr.sbox)]

reparse_child(buf, c, dbg) ==
    IF c.variant = "SuperBox"
    THEN reparsed_super_box(c.sbox,
                            reparse_children(buf, c.sbox.child_boxes, <<>>, dbg))
    ELSE IF c.dbox.tbox = SUPER_BOX_TYPE
    THEN reparsed_data_box(SuperBox_from_data_box(buf, c.dbox, dbg))
    ELSE [kind |-> "Ok", child |-> c]

reparse_children(buf, child_boxes, result, dbg) ==
    IF child_boxes = <<>> THEN [kind |-> "Ok", child_boxes |-> result]
    ELSE reparse_push(buf, child_boxes, result,
                      reparse_child(buf, Head(child_boxes), dbg), dbg)

\* The root with its children re-parsed (cr).
reparsed_root(sbox, cr) ==
    IF cr.kind # "Ok" THEN cr
    ELSE [kind |-> "Ok", sbox |-> [sbox EXCEPT !.child_boxes = cr.child_boxes]]

reparse(buf, sbox, dbg) ==
    reparsed_root(sbox, reparse_children(buf, sbox.child_boxes, <<>>, dbg))

CallReparse ==
    /\ op = "SuperBox::from_slice_with_depth_limit"
    /\ res.kind = "Ok"
    /\ op' = "reparse"
    /\ res' = reparse(input, res.sbox, debug_build)
    /\ UNCHANGED <<kept, input, pos, arg, debug_build>>

\* receiver.find_by_label(label) on the root of the tree just parsed.
CallFindByLabel ==
    /\ TreeParsed
    /\ \E label \in Queries :
        /\ op' = "find_by_label"
        /\ arg' = [receiver |-> res.sbox, label |-> label]
        /\ res' = find_by_label(res.sbox, label)
    /\ UNCHANGED <<kept, input, pos, debug_build>>

NextTree ==
    \/ CallSeek
    \/ CallSuperBoxFromSlice
    \/ CallSuperBoxFromReader
    \/ CallReparse

SpecTree == InitTree /\ [][NextTree]_vars

(***************************************************************************)
(* Specification of the label lookup: one buffer holding a labelled        *)
(* superbox, parsed as a slice or as a stream and then searched            *)
(***************************************************************************)
InitFind ==
    /\ input \in FindInputs
    /\ pos = U64Zero
    /\ op = "new"
    /\ res = NoResult
    /\ arg = U64Zero
    /\ debug_build \in BOOLEAN
    /\ held = {}
    /\ pbox = NoResult

NextFind ==
    \/ CallSeek
    \/ CallSuperBoxFromSlice
    \/ CallSuperBoxFromReader
    \/ CallFindByLabel

SpecFind == InitFind /\ [][NextFind]_vars

(***************************************************************************)
(* Claims about the tree builder (checked under SpecTree) and the label     *)
(* lookup (checked under SpecFind)                                         *)
(***************************************************************************)
\* Where a span starts in the input.
SpanStart(span) == IF span.kind = "Lazy" THEN Nat32(span.offset) ELSE span.start

\* The type tag of a child box, read off the input bytes of its original span.
ChildTypeTag(b, c) ==
    HeaderType(b, SpanStart(IF c.variant = "SuperBox" THEN c.sbox.original
                                                      ELSE c.dbox.original))

\* Every child found `level` levels below the root, and below, is a SuperBox
\* exactly if its type is 'jumb' and its level is at most d.
RECURSIVE VariantsFollowDepth(_, _, _, _)
VariantsFollowDepth(b, sbox, level, d) ==
    \A i \in 1..Len(sbox.child_boxes) :
        LET c == sbox.child_boxes[i]
        IN  /\ (c.variant = "SuperBox")
                  <=> (ChildTypeTag(b, c) = SUPER_BOX_TYPE /\ U64Le(U64(level), d))
            /\ c.variant = "SuperBox"
                  => VariantsFollowDepth(b, c.sbox, level + 1, d)

\* C5: in the tree a depth-limited parse (slice or reader) returns for limit d,
\* a child is the SuperBox variant if and only if its type tag is 'jumb' and it
\* sits at most d levels below the root; every other child is the unparsed
\* DataBox variant, and with d = 0 every child of the root is a DataBox.
C5_VariantByTypeAndDepth ==
    TreeParsed =>
        /\ VariantsFollowDepth(input, res.sbox, 1, arg.depth_limit)
        /\ arg.depth_limit = U64Zero =>
              \A i \in 1..Len(res.sbox.child_boxes) :
                  res.sbox.child_boxes[i].variant = "DataBox"

\* A reader parse with limit 2 of a tree nested three deep: superboxes at levels
\* 1 and 2, an unparsed 'jumb' box at level 3.
C5_Witness ==
    /\ op = "SuperBox::from_reader_with_depth_limit"
    /\ res.kind = "Ok"
    /\ arg.depth_limit = U64(2)
    /\ Len(res.sbox.child_boxes) = 2
    /\ res.sbox.child_boxes[1].variant = "DataBox"
    /\ res.sbox.child_boxes[2].variant = "SuperBox"
    /\ LET c == res.sbox.child_boxes[2].sbox.child_boxes
       IN  /\ Len(c) > 0
           /\ c[1].variant = "SuperBox"
           /\ Len(c[1].sbox.child_boxes) > 0
           /\ c[1].sbox.child_boxes[1].variant = "DataBox"
           /\ c[1].sbox.child_boxes[1].dbox.tbox = SUPER_BOX_TYPE

\* C6: when SuperBox::from_reader(_with_depth_limit) succeeds on a reader at the
\* start s of a superbox of total length T, the reader is left at s + T.
C6_ReaderAtEndOfSuperBox ==
    (op = "SuperBox::from_reader_with_depth_limit" /\ res.kind = "Ok") =>
        /\ ValidHeaderAt(input, arg.start) # <<>>
        /\ pos = U64Add(arg.start, ValidHeaderAt(input, arg.start)[1]).val

\* The number of levels of superboxes below the root of a parsed tree.
RECURSIVE NestingDepth(_)
NestingDepth(sbox) ==
    LET below == { IF sbox.child_boxes[i].variant = "SuperBox"
                   THEN 1 + NestingDepth(sbox.child_boxes[i].sbox)
                   ELSE 0 : i \in 1..Len(sbox.child_boxes) } \cup {0}
    IN  CHOOSE m \in below : \A n \in below : n <= m

\* The unlimited parse of the slice the last call parsed.
UnlimitedParse ==
    SuperBox_from_slice(input, Slice(Nat32(arg.start), Len(input) - Nat32(arg.start)),
                        debug_build)

\* C8: for an input that parses with unlimited depth, a parse with limit d
\* followed by re-parsing every unparsed 'jumb' DataBox child with
\* SuperBox::from_data_box gives the tree of the unlimited parse, and a parse
\* with a limit d >= the nesting depth gives what SuperBox::from_slice gives.
C8_ReparseReconstructs ==
    op \in {"reparse", "SuperBox::from_slice_with_depth_limit"} =>
        \A full \in {UnlimitedParse} :
            full.kind = "Ok" =>
                /\ op = "reparse" =>
                      /\ res.kind = "Ok"
                      /\ res.sbox = full.sbox
                /\ (/\ op = "SuperBox::from_slice_with_depth_limit"
                    /\ U64Le(U64(NestingDepth(full.sbox)), arg.depth_limit)) =>
                      res = full

\* A tree nested at least two deep, parsed with limit 0 and re-parsed.
C8_Witness ==
    /\ op = "reparse"
    /\ arg.depth_limit = U64Zero
    /\ res.kind = "Ok"
    /\ NestingDepth(res.sbox) >= 2
    /\ res.sbox = UnlimitedParse.sbox

NoSlash(label) == \A i \in 1..Len(label) : label[i] # 47

\* The direct children of sbox (by index) that are superboxes, carry the label
\* and are requestable.
VisibleMatches(sbox, label) ==
    { i \in 1..Len(sbox.child_boxes) :
          /\ sbox.child_boxes[i].variant = "SuperBox"
          /\ sbox.child_boxes[i].sbox.desc.label = Some(label)
          /\ sbox.child_boxes[i].sbox.desc.requestable }

\* None, or Some of the one visible match.
OnlyMatch(sbox, label) ==
    IF Cardinality(VisibleMatches(sbox, label)) = 1
    THEN Some(sbox.child_boxes[CHOOSE i \in VisibleMatches(sbox, label) : TRUE].sbox)
    ELSE None

\* C9: find_by_label with a label without '/' returns Some(c) if and only if c
\* is the one and only direct child that is a SuperBox, carries the label and is
\* requestable; it returns None when there is no such child or several, and a
\* child that is not requestable neither matches nor makes a match ambiguous.
C9_FindDirectChild ==
    (op = "find_by_label" /\ NoSlash(arg.label)) =>
        res = OnlyMatch(arg.receiver, arg.label)

\* A lookup that finds its box next to a sibling with the same label that is not
\* requestable.
C9_Witness ==
    /\ op = "find_by_label"
    /\ NoSlash(arg.label)
    /\ res # None
    /\ \E i \in 1..Len(arg.receiver.child_boxes) :
           LET c == arg.receiver.child_boxes[i]
           IN  /\ c.variant = "SuperBox"
               /\ c.sbox.desc.label = Some(arg.label)
               /\ ~c.sbox.desc.requestable

\* The segments of a path: the texts between its '/' characters.
RECURSIVE Segments(_)
Segments(label) ==
    IF NoSlash(label) THEN <<label>>
    ELSE LET i == CHOOSE i \in 1..Len(label) :
                      label[i] = 47 /\ NoSlash(SubSeq(label, 1, i - 1))
         IN  <<SubSeq(label, 1, i - 1)>> \o Segments(SubSeq(label, i + 1, Len(label)))

\* Going down from sbox along the segments, one only match at a time.
RECURSIVE Descend(_, _)
Descend(sbox, segments) ==
    LET b == OnlyMatch(sbox, Head(segments))
    IN  IF b = None \/ Len(segments) = 1 THEN b
        ELSE Descend(b[1], Tail(segments))

\* The text after the first '/' of a path.
AfterFirstSegment(label) ==
    SubSeq(label, Len(Segments(label)[1]) + 2, Len(label))

\* C10: for a path s1/s2/.../sn, find_by_label returns what looking up s1 among
\* the direct children and then calling find_by_label(s2/.../sn) on the box
\* found returns: Some(b) only if at every level exactly one requestable
\* superbox child carries the segment, b being the box n levels down; None if a
\* segment has no match or several.
C10_FindAlongPath ==
    (op = "find_by_label" /\ ~NoSlash(arg.label)) =>
        /\ res = Descend(arg.receiver, Segments(arg.label))
        /\ res = (LET b1 == OnlyMatch(arg.receiver, Segments(arg.label)[1])
                  IN  IF b1 = None THEN None
                      ELSE find_by_label(b1[1], AfterFirstSegment(arg.label)))

\* A path of three segments that is found, three levels down.
C10_Witness ==
    /\ op = "find_by_label"
    /\ Len(Segments(arg.label)) = 3
    /\ res # None
    /\ res = Descend(arg.receiver, Segments(arg.label))
    /\ res[1].child_boxes = <<>>

(***************************************************************************)
(* DataBox::offset_within_superbox                                         *)
(***************************************************************************)
\* InputData::as_slice: Some(slice) for borrowed data, None for lazy data.
as_slice(d) == IF d.kind = "Borrowed" THEN Some(d) ELSE None

\* Mutant of past_end_of: the length of the payload is left out.
past_end_of_ignoring_len(offset, data_slice, sbox_slice) == offset > sbox_slice.len

\* `offset + data_slice.len() > sbox_slice.len()`
past_end_of(offset, data_slice, sbox_slice) ==
    offset + data_slice.len > sbox_slice.len

\* self.offset_within_superbox(super_box).  A slice's `start` is the address of
\* its first byte, counted from the lowest address of the memory in `input`.
offset_within_superbox(self, super_box) ==
    IF as_slice(super_box.original) = None \/ as_slice(self.data) = None
    THEN None
    ELSE LET sbox_as_ptr == super_box.original.start
             self_as_ptr == self.data.start
         IN  IF self_as_ptr < sbox_as_ptr THEN None
             ELSE IF past_end_of(self_as_ptr - sbox_as_ptr, self.data,
                                 super_box.original)
                  THEN None
                  ELSE Some(self_as_ptr - sbox_as_ptr)

(***************************************************************************)
(* Specification of offset_within_superbox: a memory holding a buffer and  *)
(* a copy of it, parsed several times, and boxes of the parses compared    *)
(***************************************************************************)
\* Parsed superboxes the caller keeps at a time.
MaxHeld == 2

\* Bytes between the buffer and its copy (the two may be adjacent).
MaxGap == 1

\* The root of a tree, encoded with length field 0.
EncTreeToEnd(n) ==
    EncBoxToEnd(SUPER_BOX_TYPE,
                EncDesc(n.label, n.requestable)
                \o Concat([i \in 1..Len(n.children) |-> EncTree(n.children[i])]))

\* Child lists of the root: data boxes with and without payload before, between
\* and after sibling superboxes; the last box may reach to the end.
OffsetChildren ==
    {<<Leaf("e"), Node(Some(LabelA), TRUE, <<Leaf("d")>>),
       Node(Some(LabelB), TRUE, <<Leaf("e")>>), Leaf("z")>>,
     <<Leaf("d"), Node(Some(LabelA), TRUE, <<Leaf("d"), Leaf("e")>>), Leaf("d")>>,
     <<Node(Some(LabelA), TRUE, <<Leaf("e")>>),
       Node(Some(LabelB), TRUE, <<Leaf("d")>>), Leaf("z")>>,
     <<Leaf("z")>>}

OffsetBuffers ==
    { EncTreeToEnd(Node(None, FALSE, c)) : c \in OffsetChildren }

\* The memory: the buffer, a gap, and a second buffer holding the same bytes.
OffsetMemories ==
    { b \o Pad(g) \o b : b \in OffsetBuffers, g \in 0..MaxGap }

\* Where the two buffers lie in a memory: <<n, g>> for a buffer of n bytes at
\* address 0, g bytes of gap, and the copy at address n + g.
Layouts(mem) ==
    { l \in (1..Len(mem)) \X (0..MaxGap) :
        /\ 2 * l[1] + l[2] = Len(mem)
        /\ SubSeq(mem, l[1] + 1, l[1] + l[2]) = Pad(l[2])
        /\ SubSeq(mem, l[1] + l[2] + 1, Len(mem)) = SubSeq(mem, 1, l[1]) }

\* The slices that are parsed: the buffer, the buffer without its last byte,
\* and the copy.
OffsetSlices(mem) ==
    UNION { {Slice(0, l[1]), Slice(0, l[1] - 1), Slice(l[1] + l[2], l[1])} :
              l \in Layouts(mem) }

InitOffset ==
    /\ input \in OffsetMemories
    /\ pos = U64Zero
    /\ op = "new"
    /\ res = NoResult
    /\ arg = U64Zero
    /\ debug_build \in BOOLEAN
    /\ held = {}
    /\ pbox = NoResult

\* The superbox parsed (r) is kept if the parse succeeded.
keep_super_box(r) ==
    /\ res' = WithoutPos(r)
    /\ held' = IF r.kind = "Ok" THEN held \cup {r.sbox} ELSE held

\* let (sbox, _) = SuperBox::from_slice(&memory[a..b])
CallKeepFromSlice ==
    /\ Cardinality(held) < MaxHeld
    /\ \E sl \in OffsetSlices(input) :
        /\ op' = "SuperBox::from_slice"
        /\ arg' = sl
        /\ keep_super_box(SuperBox_from_slice(input, sl, debug_build))
    /\ UNCHANGED <<input, pos, debug_build, pbox>>

\* let sbox = SuperBox::from_reader(reader), the reader at the first byte.
CallKeepFromReader ==
    /\ Cardinality(held) < MaxHeld
    /\ op = "new"
    /\ op' = "SuperBox::from_reader"
    /\ arg' = pos
    /\ \E r \in {SuperBox_from_reader(input, pos, debug_build)} :
        /\ keep_super_box(r)
        /\ IF r.kind = "IoError" THEN pos' \in {r.pos, U64(Len(input))}
                                 ELSE pos' = r.pos
    /\ UNCHANGED <<input, debug_build, pbox>>

\* The superboxes at and below a superbox, and the data boxes below it.
RECURSIVE SuperBoxesOf(_)
SuperBoxesOf(sbox) ==
    {sbox} \cup
    UNION { SuperBoxesOf(sbox.child_boxes[i].sbox) :
              i \in { j \in 1..Len(sbox.child_boxes) :
                        sbox.child_boxes[j].variant = "SuperBox" } }

DataBoxesOf(sbox) ==
    { s.child_boxes[i].dbox :
        <<s, i>> \in { <<t, j>> \in SuperBoxesOf(sbox) \X (1..4) :
                         /\ j <= Len(t.child_boxes)
                         /\ t.child_boxes[j].variant = "DataBox" } }

\* dbox.offset_within_superbox(&sbox), on boxes of the parses kept.
CallOffsetWithinSuperbox ==
    /\ \E root1 \in held, root2 \in held :
        \E sbox \in SuperBoxesOf(root1), dbox \in DataBoxesOf(root2) :
            /\ op' = "DataBox::offset_within_superbox"
            /\ arg' = [self |-> dbox, super_box |-> sbox]
            /\ res' = offset_within_superbox(dbox, sbox)
    /\ UNCHANGED <<input, pos, debug_build, held, pbox>>

NextOffset ==
    \/ CallKeepFromSlice
    \/ CallKeepFromReader
    \/ CallOffsetWithinSuperbox

SpecOffset == InitOffset /\ [][NextOffset]_vars

(***************************************************************************)
(* Claims about offset_within_superbox (checked under SpecOffset)          *)
(***************************************************************************)
OffsetCalled == op = "DataBox::offset_within_superbox"

BothBorrowed ==
    arg.self.data.kind = "Borrowed" /\ arg.super_box.original.kind = "Borrowed"

\* The addresses of the first byte of the payload and of the superbox, and of
\* the bytes after their last.
PayloadStart == arg.self.data.start

PayloadEnd == arg.self.data.start + arg.self.data.len

SuperBoxStart == arg.super_box.original.start

SuperBoxEnd == arg.super_box.original.start + arg.super_box.original.len

\* The data box is a child or a deeper descendant of the superbox.
IsMember == arg.self \in DataBoxesOf(arg.super_box)

\* C11: offset_within_superbox returns Some(k) only when the payload lies
\* entirely inside the address range of super_box.original, and then k is the
\* distance of the payload's first byte from the superbox's first byte; it
\* returns Some of that distance for every data box below the superbox in a
\* tree parsed from a slice, and None for a payload that starts before the
\* superbox or ends after it.
C11_OffsetIsDistanceInside ==
    OffsetCalled =>
        /\ res # None =>
            /\ BothBorrowed
            /\ SuperBoxStart <= PayloadStart
            /\ PayloadEnd <= SuperBoxEnd
            /\ res = Some(PayloadStart - SuperBoxStart)
        /\ (IsMember /\ BothBorrowed) => res = Some(PayloadStart - SuperBoxStart)
        /\ (BothBorrowed /\ (PayloadStart < SuperBoxStart \/ PayloadEnd > SuperBoxEnd))
               => res = None

\* A data box two levels below the root, asked for its offset in the root.
C11_Witness ==
    /\ OffsetCalled
    /\ IsMember
    /\ arg.super_box \in held
    /\ arg.self \notin { arg.super_box.child_boxes[i].dbox :
                           i \in { j \in 1..Len(arg.super_box.child_boxes) :
                                     arg.super_box.child_boxes[j].variant = "DataBox" } }
    /\ res # None
    /\ res[1] > 8

\* C12: offset_within_superbox returns None for every data box that is not a
\* member of the superbox and whose payload lies before the superbox or after
\* it (in the same buffer, a sibling superbox included, or in another buffer),
\* whatever the payload's length.
C12_NonMemberGetsNone ==
    (/\ OffsetCalled
     /\ ~IsMember
     /\ BothBorrowed
     /\ (PayloadEnd <= SuperBoxStart \/ SuperBoxEnd <= PayloadStart)) => res = None

(***************************************************************************)
(* Specification of the typed reinterpretations: one buffer holding a box, *)
(* parsed by the header decoder and then decoded as a description box or   *)
(* re-parsed as a superbox                                                 *)
(***************************************************************************)
\* The fields of the generated description payloads; no byte of them is 0 and
\* the fields share no byte, so that a field read at a wrong place shows.
UuidBytes == [i \in 1..16 |-> 200 + i]

IdBytes == <<1, 2, 3, 4>>

HashBytes == [i \in 1..32 |-> 100 + i]

PrivateBoxBytes == EncBox(JSON_BOX_TYPE, <<9>>)

\* Labels: "a", "", U+00E9, and two byte strings that are not UTF-8.
DescLabels == {<<97>>, <<>>, <<195, 169>>, <<255>>, <<195>>}

\* Toggle bytes: every combination of the five bits, and one with the three
\* unassigned bits set.
DescToggles == (0..31) \cup {227}

\* Bit `bit` (a power of two) of a byte.
HasBit(byte, bit) == (byte \div bit) % 2 = 1

\* A payload with exactly the fields its toggle byte announces.
DescPayload(toggles, label) ==
    UuidBytes \o <<toggles>>
    \o (IF HasBit(toggles, 2) THEN label \o <<0>> ELSE <<>>)
    \o (IF HasBit(toggles, 4) THEN IdBytes ELSE <<>>)
    \o (IF HasBit(toggles, 8) THEN HashBytes ELSE <<>>)
    \o (IF HasBit(toggles, 16) THEN PrivateBoxBytes ELSE <<>>)

FullDescPayloads ==
    { DescPayload(t, l) :
        <<t, l>> \in { x \in DescToggles \X DescLabels :
                         HasBit(x[1], 2) \/ x[2] = <<>> } }

\* Every payload and every prefix of it (payloads that end inside a field).
DescPayloads ==
    UNION { { SubSeq(f, 1, n) : n \in 0..Len(f) } : f \in FullDescPayloads }

\* Payloads of superboxes: a description and a child, a child before the
\* description, a nested superbox first, nothing, and bytes that are no box.
SuperPayloads ==
    {EncDesc(Some(LabelA), TRUE) \o EncBox(JSON_BOX_TYPE, <<123>>),
     EncBox(JSON_BOX_TYPE, <<123>>) \o EncDesc(Some(LabelA), TRUE),
     EncBox(SUPER_BOX_TYPE, EncDesc(Some(LabelA), TRUE)),
     EncBoxToEnd(JSON_BOX_TYPE, <<123>>),
     <<>>,
     <<0, 0, 0, 2, 106, 117, 109, 100>>}

TypedBoxTypes == {SUPER_BOX_TYPE, DESCRIPTION_BOX_TYPE, JSON_BOX_TYPE}

\* A description box around every payload; and every type around the
\* superbox payloads and some description payloads.
TypedInputs ==
    { EncBox(DESCRIPTION_BOX_TYPE, p) : p \in DescPayloads }
    \cup { EncBox(t, p) :
             t \in TypedBoxTypes,
             p \in SuperPayloads \cup {DescPayload(3, <<97>>), DescPayload(31, <<97>>),
                                       SubSeq(UuidBytes, 1, 7)} }

InitTyped ==
    /\ input \in TypedInputs
    /\ pos = U64Zero
    /\ op = "new"
    /\ res = NoResult
    /\ arg = U64Zero
    /\ debug_build \in BOOLEAN
    /\ held = {}
    /\ pbox = NoResult

\* The caller has a DataBox from DataBox::from_slice(&input).
BoxParsed == op = "DataBox::from_slice" /\ res.kind = "Ok"

\* DescriptionBox::from_box(boxx)
CallDescriptionBoxFromBox ==
    /\ BoxParsed
    /\ op' = "DescriptionBox::from_box"
    /\ arg' = res.box
    /\ res' = DescriptionBox_from_box(input, res.box, debug_build)
    /\ UNCHANGED <<kept, input, pos, debug_build>>

\* DescriptionBox::from_slice(&input)
CallDescriptionBoxFromSlice ==
    /\ op = "new"
    /\ op' = "DescriptionBox::from_slice"
    /\ arg' = Slice(0, Len(input))
    /\ res' = DescriptionBox_from_slice(input, Slice(0, Len(input)), debug_build)
    /\ UNCHANGED <<kept, input, pos, debug_build>>

\* SuperBox::from_data_box_with_depth_limit(&data_box, d); from_data_box is the
\* call with d = usize::MAX.
CallSuperBoxFromDataBox ==
    /\ BoxParsed
    /\ \E d \in {U64Zero, U64Max} :
        /\ op' = "SuperBox::from_data_box_with_depth_limit"
        /\ arg' = [data_box |-> res.box, depth_limit |-> d]
        /\ res' = SuperBox_from_data_box_with_depth_limit(input, res.box, d, debug_build)
    /\ UNCHANGED <<kept, input, pos, debug_build>>

NextTyped ==
    \/ CallDataBoxFromSlice
    \/ CallDescriptionBoxFromBox
    \/ CallDescriptionBoxFromSlice
    \/ CallSuperBoxFromDataBox

SpecTyped == InitTyped /\ [][NextTyped]_vars

(***************************************************************************)
(* Claims about the description decoder and the typed reinterpretations     *)
(* (checked under SpecTyped)                                               *)
(***************************************************************************)
\* The box handed to the description decoder, and its payload bytes.
DescribedBox ==
    IF op = "DescriptionBox::from_box" THEN arg
    ELSE DataBox_from_slice(input, arg, debug_build).box

DescribedPayload ==
    SliceBytes(input, Slice(DescribedBox.data.start, DescribedBox.data.len))

\* A description decoder was called on a box of type 'jumd'.
DescriptionDecoded ==
    \/ op = "DescriptionBox::from_box" /\ arg.tbox = DESCRIPTION_BOX_TYPE
    \/ /\ op = "DescriptionBox::from_slice"
       /\ DataBox_from_slice(input, arg, debug_build).kind = "Ok"
       /\ DataBox_from_slice(input, arg, debug_build).box.tbox = DESCRIPTION_BOX_TYPE

\* Four bytes as a big-endian number (below 2^31).
BigEndian(b) == b[1] * 16777216 + b[2] * 65536 + b[3] * 256 + b[4]

\* The fields of desc lie in the payload d in the order UUID, toggles, label,
\* id, hash, private box, each present exactly if its toggle bit is set.
FieldsInOrder(d, desc) ==
    LET t == d[17]
        L == IF HasBit(t, 2) THEN Len(desc.label[1]) + 1 ELSE 0
        I == IF HasBit(t, 4) THEN 4 ELSE 0
        H == IF HasBit(t, 8) THEN 32 ELSE 0
        rest == Slice(DescribedBox.data.start + 17 + L + I + H,
                      Len(d) - (17 + L + I + H))
    IN  /\ desc.uuid = SubSeq(d, 1, 16)
        /\ desc.requestable = HasBit(t, 1)
        /\ (desc.label # None) = HasBit(t, 2)
        /\ (desc.id # None) = HasBit(t, 4)
        /\ (desc.hash # None) = HasBit(t, 8)
        /\ (desc.private # None) = HasBit(t, 16)
        /\ HasBit(t, 2) =>
              /\ desc.label[1] = SubSeq(d, 18, 17 + L - 1)
              /\ d[17 + L] = 0
              /\ \A k \in 18..(17 + L - 1) : d[k] # 0
        /\ HasBit(t, 4) =>
              desc.id[1] = U64(BigEndian(SubSeq(d, 18 + L, 21 + L)))
        /\ HasBit(t, 8) => desc.hash[1] = SubSeq(d, 18 + L + I, 17 + L + I + 32)
        /\ HasBit(t, 16) =>
              /\ DataBox_from_slice(input, rest, debug_build).kind = "Ok"
              /\ desc.private[1] = DataBox_from_slice(input, rest, debug_build).box

\* C13: a description decoded from a 'jumd' box holds the 16-byte UUID, the
\* toggle byte's requestable bit, and then, in this order, the label (the
\* bytes before the first NUL), the id (4 bytes big-endian), the hash (32
\* bytes) and the private box (decoded by the header decoder from what
\* remains), each present exactly if its toggle bit is set.
C13_FieldsFollowToggles ==
    (DescriptionDecoded /\ res.kind = "Ok") =>
        /\ Len(DescribedPayload) >= 17
        /\ FieldsInOrder(DescribedPayload, res.desc)

\* A description with all five toggle bits set and every field decoded.
C13_Witness ==
    /\ op = "DescriptionBox::from_box"
    /\ res.kind = "Ok"
    /\ DescribedPayload[17] = 31
    /\ res.desc.label = Some(<<97>>)
    /\ res.desc.id = Some(U64(BigEndian(IdBytes)))
    /\ res.desc.hash = Some(HashBytes)
    /\ res.desc.private # None
    /\ res.desc.private[1].tbox = JSON_BOX_TYPE

\* The labels of the generated payloads that are not UTF-8.
InvalidLabels == {<<255>>, <<195>>}

\* The number of bytes before the first NUL of b, or -1.
BeforeNul(b) ==
    IF \A k \in 1..Len(b) : b[k] # 0 THEN -1
    ELSE CHOOSE n \in 0..(Len(b) - 1) : b[n + 1] = 0 /\ \A k \in 1..n : b[k] # 0

\* What a payload that ends inside a field, or whose label is not UTF-8, must
\* be answered with; NoResult if the payload has neither defect up to the hash.
ExpectedFieldError(d) ==
    IF Len(d) < 16 THEN Incomplete(16 - Len(d))
    ELSE IF Len(d) = 16 THEN Incomplete(1)
    ELSE
    LET t  == d[17]
        r1 == SubSeq(d, 18, Len(d))
        n  == BeforeNul(r1)
    IN
    IF HasBit(t, 2) /\ n < 0 THEN Incomplete(1)
    ELSE IF HasBit(t, 2) /\ SubSeq(r1, 1, n) \in InvalidLabels THEN Utf8Error
    ELSE
    LET rest2 == Len(r1) - (IF HasBit(t, 2) THEN n + 1 ELSE 0)
        rest3 == rest2 - (IF HasBit(t, 4) THEN 4 ELSE 0)
    IN
    IF HasBit(t, 4) /\ rest2 < 4 THEN Incomplete(4 - rest2)
    ELSE IF HasBit(t, 8) /\ rest3 < 32 THEN Incomplete(32 - rest3)
    ELSE NoResult

\* C14: a description payload that ends inside a field is answered with
\* Incomplete(n), n being the number of missing bytes (16 - len for the UUID, 1
\* for the toggle byte, 4 - rest for the id, 32 - rest for the hash, 1 for a
\* label without NUL), and a terminated label that is not UTF-8 with Utf8Error;
\* no description is returned.
C14_IncompleteCountsMissingBytes ==
    (DescriptionDecoded /\ ExpectedFieldError(DescribedPayload) # NoResult) =>
        res = ExpectedFieldError(DescribedPayload)

\* A hash cut short after the label and the id were read.
C14_Witness ==
    /\ op = "DescriptionBox::from_box"
    /\ arg.tbox = DESCRIPTION_BOX_TYPE
    /\ Len(DescribedPayload) > 17
    /\ DescribedPayload[17] = 15
    /\ res.kind = "Incomplete"
    /\ res.missing > 4
    /\ res.missing < 32

\* The four type bytes of the box that starts at address a of the buffer.
TypeBytesAt(a) == SubSeq(input, a + 5, a + 8)

\* C15: the type is checked before the payload is looked at.  Re-parsing as a
\* superbox a box whose type is not 'jumb' fails with InvalidSuperBoxType,
\* decoding as a description a box whose type is not 'jumd' fails with
\* InvalidDescriptionBoxType, and so does re-parsing a 'jumb' box whose first
\* inner box is not 'jumd'; the tag reported is the offending box's 4 type bytes.
C15_TypeCheckedFirst ==
    /\ (op = "SuperBox::from_data_box_with_depth_limit"
        /\ arg.data_box.tbox # SUPER_BOX_TYPE) =>
            res = InvalidSuperBoxType(TypeBytesAt(arg.data_box.original.start))
    /\ (op = "DescriptionBox::from_box" /\ arg.tbox # DESCRIPTION_BOX_TYPE) =>
            res = InvalidDescriptionBoxType(TypeBytesAt(arg.original.start))
    /\ (op = "DescriptionBox::from_slice"
        /\ DataBox_from_slice(input, arg, debug_build).kind = "Ok"
        /\ TypeBytesAt(arg.start) # DESCRIPTION_BOX_TYPE) =>
            res = InvalidDescriptionBoxType(TypeBytesAt(arg.start))
    /\ (op = "SuperBox::from_data_box_with_depth_limit"
        /\ arg.data_box.tbox = SUPER_BOX_TYPE
        /\ DataBox_from_slice(input, Slice(arg.data_box.data.start,
                                           arg.data_box.data.len),
                              debug_build).kind = "Ok"
        /\ TypeBytesAt(arg.data_box.data.start) # DESCRIPTION_BOX_TYPE) =>
            res = InvalidDescriptionBoxType(TypeBytesAt(arg.data_box.data.start))

\* A 'json' box that holds a well-formed superbox payload is refused as a
\* superbox for its type.
C15_Witness ==
    /\ op = "SuperBox::from_data_box_with_depth_limit"
    /\ arg.data_box.tbox = JSON_BOX_TYPE
    /\ SliceBytes(input, Slice(arg.data_box.data.start, arg.data_box.data.len))
           = EncDesc(Some(LabelA), TRUE) \o EncBox(JSON_BOX_TYPE, <<123>>)
    /\ res = InvalidSuperBoxType(JSON_BOX_TYPE)

(***************************************************************************)
(* Claims about the spans of a parsed tree and about the two parse modes    *)
(* (checked under SpecTree)                                                *)
(***************************************************************************)
\* The length of a span and the place behind its last byte.
SpanLen(span) == IF span.kind = "Lazy" THEN Nat32(span.len) ELSE span.len

SpanEnd(span) == SpanStart(span) + SpanLen(span)

\* The size of the header that starts k bytes into b: 16 with an extended
\* length, else 8.
HeaderSize(b, k) == IF HeaderL(b, k) = U64(1) THEN 16 ELSE 8

ChildOriginal(c) == IF c.variant = "SuperBox" THEN c.sbox.original ELSE c.dbox.original

\* The description box and the children of sbox tile its payload, every data
\* box's data is its original without the header, and so below.
RECURSIVE Tiles(_, _)
Tiles(b, sbox) ==
    LET n == Len(sbox.child_boxes)
        first == SpanStart(sbox.original) + HeaderSize(b, SpanStart(sbox.original))
        EndOfBox(i) == IF i = 0 THEN SpanEnd(sbox.desc.original)
                       ELSE SpanEnd(ChildOriginal(sbox.child_boxes[i]))
    IN  /\ SpanStart(sbox.desc.original) = first
        /\ \A i \in 1..n :
              LET c == sbox.child_boxes[i]
              IN  /\ SpanStart(ChildOriginal(c)) = EndOfBox(i - 1)
                  /\ IF c.variant = "SuperBox"
                     THEN Tiles(b, c.sbox)
                     ELSE /\ SpanStart(c.dbox.data)
                               = SpanStart(c.dbox.original)
                                   + HeaderSize(b, SpanStart(c.dbox.original))
                          /\ SpanEnd(c.dbox.data) = SpanEnd(c.dbox.original)
        /\ EndOfBox(n) = SpanEnd(sbox.original)

\* C24: in every successfully parsed superbox, slice mode and stream mode
\* alike, the description box and the child boxes tile the payload in order
\* without gap or overlap, the last box ends at the payload's end, and each
\* box's data span is its original span without its header.
C24_BoxesTilePayload == TreeParsed => Tiles(input, res.sbox)

\* A span as (offset, length), whichever mode made it.
SpanPlace(span) ==
    IF span.kind = "Lazy" THEN <<span.offset, span.len>>
    ELSE IF span.start < 0 THEN <<"static", U64(span.len)>>
    ELSE <<U64(span.start), U64(span.len)>>

DataBoxPlaces(d) ==
    [tbox |-> d.tbox, data |-> SpanPlace(d.data), original |-> SpanPlace(d.original)]

\* A parsed tree with every span replaced by its (offset, length).
RECURSIVE TreePlaces(_)
TreePlaces(sbox) ==
    [desc |-> [sbox.desc EXCEPT
                 !.original = SpanPlace(sbox.desc.original),
                 !.private = IF sbox.desc.private = None THEN None
                             ELSE Some(DataBoxPlaces(sbox.desc.private[1]))],
     original |-> SpanPlace(sbox.original),
     child_boxes |->
        [i \in 1..Len(sbox.child_boxes) |->
            IF sbox.child_boxes[i].variant = "SuperBox"
            THEN ChildSuperBox(TreePlaces(sbox.child_boxes[i].sbox))
            ELSE ChildDataBox(DataBoxPlaces(sbox.child_boxes[i].dbox))]]

\* What two parses of the same bytes returned is the same: both failed, or
\* both succeeded with trees of the same shape, types, description fields and
\* span places.
SameOutcome(r1, r2) ==
    /\ (r1.kind = "Ok") = (r2.kind = "Ok")
    /\ r1.kind = "Ok" => TreePlaces(r1.sbox) = TreePlaces(r2.sbox)

\* C25: SuperBox::from_slice_with_depth_limit on the bytes and
\* SuperBox::from_reader_with_depth_limit on a reader over the same bytes at
\* position 0 both fail or both succeed, and on success return trees of the
\* same shape, box types, description fields and (offset, length) of every
\* data and original span.
C25_ModesAgree ==
    (op = "SuperBox::from_slice_with_depth_limit" /\ arg.start = U64Zero) =>
        \A r \in {SuperBox_from_reader_with_depth_limit(
                      input, U64Zero, arg.depth_limit, debug_build)} :
            SameOutcome(res, r)

(***************************************************************************)
(* Specification of the tree builder on malformed input: one buffer        *)
(* holding superboxes nested in one another, the innermost of them with a  *)
(* defect, parsed as a slice and as a stream                               *)
(***************************************************************************)
\* A description box (UUID, toggles, label "a") with the type 'json'.
WrongTypeDesc ==
    EncBox(JSON_BOX_TYPE, [i \in 1..16 |-> 0] \o <<REQUESTABLE + HAS_LABEL>> \o LabelA \o <<0>>)

\* A header with the reserved length 5.
ReservedLengthBox == u32_to_be_bytes(U64(5)) \o JSON_BOX_TYPE

\* A header with the extended length 2^64 - 9.
WrappingBox ==
    u32_to_be_bytes(U64(1)) \o JSON_BOX_TYPE
    \o u64_to_be_bytes(<<Limb - 1, Limb - 1, Limb - 1, Limb - 9>>)

Defects == {"none", "desc", "child", "wrap"}

\* The innermost superbox with its defect.
DefectiveSuperBox(defect) ==
    EncBox(SUPER_BOX_TYPE,
           (IF defect = "desc" THEN WrongTypeDesc ELSE EncDesc(Some(LabelA), TRUE))
           \o EncBox(JSON_BOX_TYPE, <<123>>)
           \o (CASE defect = "child" -> ReservedLengthBox
                 [] defect = "wrap"  -> WrappingBox
                 [] OTHER            -> <<>>))

\* m superboxes around the defective one, each holding the next and a data
\* box, the nested superbox first or last.
RECURSIVE MalformedChain(_, _, _)
MalformedChain(m, defect, nested_first) ==
    IF m = 0 THEN DefectiveSuperBox(defect)
    ELSE EncBox(SUPER_BOX_TYPE,
                EncDesc(Some(LabelA), TRUE)
                \o (IF nested_first
                    THEN MalformedChain(m - 1, defect, nested_first)
                         \o EncBox(JSON_BOX_TYPE, <<123>>)
                    ELSE EncBox(JSON_BOX_TYPE, <<123>>)
                         \o MalformedChain(m - 1, defect, nested_first)))

MalformedInputs ==
    { MalformedChain(m, defect, nested_first) :
        m \in 0..MaxNest, defect \in Defects, nested_first \in BOOLEAN }

InitMalformed ==
    /\ input \in MalformedInputs
    /\ pos = U64Zero
    /\ op = "new"
    /\ res = NoResult
    /\ arg = U64Zero
    /\ debug_build \in BOOLEAN
    /\ held = {}
    /\ pbox = NoResult

NextMalformed ==
    \/ CallSeek
    \/ CallSuperBoxFromSlice
    \/ CallSuperBoxFromReader

SpecMalformed == InitMalformed /\ [][NextMalformed]_vars

(***************************************************************************)
(* Claims about the tree builder on malformed input (checked under          *)
(* SpecMalformed)                                                          *)
(***************************************************************************)
\* Where in b the bytes pattern stand.
Occurrences(b, pattern) ==
    { i \in 1..(Len(b) - Len(pattern) + 1) : SubSeq(b, i, i + Len(pattern) - 1) = pattern }

\* The level of the innermost superbox of the input (the root is at level 0),
\* read off the 'jumb' tags.
InnermostLevel(b) == Cardinality(Occurrences(b, SUPER_BOX_TYPE)) - 1

\* The defect of the innermost superbox, read off the bytes: a header of type
\* 'json' right behind a 'jumb' header, a header with length 5, a header with
\* an extended length.
DefectOf(b) ==
    CASE \E i \in Occurrences(b, SUPER_BOX_TYPE) : i + 8 \in Occurrences(b, JSON_BOX_TYPE)
            -> "desc"
      [] Occurrences(b, <<0, 0, 0, 5>> \o JSON_BOX_TYPE) # {} -> "child"
      [] Occurrences(b, <<0, 0, 0, 1>> \o JSON_BOX_TYPE) # {} -> "wrap"
      [] OTHER -> "none"

\* The levels below the root of sbox (itself at `level`) at which an unparsed
\* box of type 'jumb' is found.
RECURSIVE OpaqueJumbLevels(_, _)
OpaqueJumbLevels(sbox, level) ==
    UNION { IF sbox.child_boxes[i].variant = "SuperBox"
            THEN OpaqueJumbLevels(sbox.child_boxes[i].sbox, level + 1)
            ELSE IF sbox.child_boxes[i].dbox.tbox = SUPER_BOX_TYPE
                 THEN {level + 1} ELSE {} : i \in 1..Len(sbox.child_boxes) }

\* The superbox parses (slice or stream) of the whole input.
WholeInputParsed ==
    /\ op \in {"SuperBox::from_slice_with_depth_limit",
               "SuperBox::from_reader_with_depth_limit"}
    /\ arg.start = U64Zero

C29_ParseTerminates == res.kind # "Diverges"

(***************************************************************************)
(* Claims about the arithmetic of the header decoder (checked under        *)
(* SpecBox)                                                                *)
(***************************************************************************)
\* C30: for every length field, extended length and start offset, from_reader
\* computes the end of the box without wrapping: it returns a box or an Error
\* value, never panics, and never leaves the reader before the position it
\* was called at.
C30_NoPanicNoWrap ==
    [][op' = "DataBox::from_reader" =>
         /\ res'.kind # "Panic"
         /\ res'.kind = "Ok" => U64Le(pos, pos')]_vars

(***************************************************************************)
(* Reading lazy spans: InputData::to_vec and InputSlice::read_range        *)
(***************************************************************************)
\* std::io::Error of kind InvalidInput ("Range exceeds slice bounds").
InvalidInput == [kind |-> "InvalidInput"]

\* Mutant of InputData_to_vec: a lazy span is read from where the reader
\* stands, without the seek to its offset.
InputData_to_vec_without_seek(data, d, p) ==
    IF d.kind = "Borrowed"
    THEN [kind |-> "Ok", bytes |-> SliceBytes(data, Slice(d.start, d.len)), pos |-> p]
    ELSE InputSlice_to_vec(data, Lazy(p, d.len))

\* InputData::to_vec with the shared reader at p: a borrowed slice is cloned
\* (the reader is not touched), a lazy span is read through the reader.
InputData_to_vec(data, d, p) ==
    IF d.kind = "Borrowed"
    THEN [kind |-> "Ok", bytes |-> SliceBytes(data, Slice(d.start, d.len)), pos |-> p]
    ELSE InputSlice_to_vec(data, d)

\* InputSlice::read_range(start, len) with the shared reader at p, for start
\* and len small enough that `start + len` does not overflow.
InputSlice_read_range(data, span, start, len, p) ==
    IF U64Lt(span.len, U64(start + len))
    THEN [kind |-> "InvalidInput", pos |-> p]
    ELSE InputSlice_to_vec(data, Lazy(U64Add(span.offset, U64(start)).val, U64(len)))

(***************************************************************************)
(* Specification of the lazy reads: one stream of boxes behind one shared   *)
(* reader, boxes parsed from it one after the other and kept, and their     *)
(* spans read                                                              *)
(***************************************************************************)
\* The largest start and the largest len read_range is called with.
MaxRange == 1

\* The boxes a stream is made of: 'json' boxes of 0 and 2 payload bytes.
LazyBoxes == {EncBox(JSON_BOX_TYPE, <<>>), EncBox(JSON_BOX_TYPE, <<123, 125>>)}

\* What ends a stream: nothing, a box that reaches to the end of the stream,
\* or a box of 12 bytes of which the stream holds only 9.
LazyTails ==
    {<<>>, EncBoxToEnd(JSON_BOX_TYPE, <<125>>),
     u32_to_be_bytes(U64(12)) \o JSON_BOX_TYPE \o <<91>>}

LazyStreams ==
    { Pad(k) \o b1 \o b2 \o t :
        k \in 0..MaxPad, b1 \in LazyBoxes, b2 \in LazyBoxes, t \in LazyTails }

InitLazy ==
    /\ input \in LazyStreams
    /\ pos = U64Zero
    /\ op = "new"
    /\ res = NoResult
    /\ arg = U64Zero
    /\ debug_build \in BOOLEAN
    /\ held = {}
    /\ pbox = NoResult

\* The reader after a call that returned r: a read_exact that fails may leave
\* the reader where it was or at the end of the stream.
reader_after(r) ==
    /\ res' = WithoutPos(r)
    /\ IF r.kind = "IoError" THEN pos' \in {r.pos, U64(Len(input))}
                             ELSE pos' = r.pos

\* let dbox = DataBox::from_reader(reader)?: the next box of the stream is
\* parsed, and kept while the caller has room for it.
CallKeepBoxFromReader ==
    /\ op' = "DataBox::from_reader"
    /\ arg' = pos
    /\ \E r \in {DataBox_from_reader(input, pos, debug_build)} :
        /\ reader_after(r)
        /\ held' = IF r.kind = "Ok" /\ Cardinality(held) < MaxHeld
                   THEN held \cup {r.box} ELSE held
    /\ UNCHANGED <<input, debug_build, pbox>>

\* dbox.data.to_vec() and dbox.original.to_vec() on a box that is kept.
CallToVec ==
    /\ \E dbox \in held :
        \E span \in {dbox.data, dbox.original} :
            /\ op' = "InputData::to_vec"
            /\ arg' = [span |-> span]
            /\ reader_after(InputData_to_vec(input, span, pos))
    /\ UNCHANGED <<input, debug_build, held, pbox>>

\* read_range(start, len) on a lazy span of a box that is kept.
CallReadRange ==
    /\ \E dbox \in held :
        \E span \in {dbox.data, dbox.original}, start \in 0..MaxRange, len \in 0..MaxRange :
            /\ span.kind = "Lazy"
            /\ op' = "InputSlice::read_range"
            /\ arg' = [span |-> span, start |-> start, len |-> len]
            /\ reader_after(InputSlice_read_range(input, span, start, len, pos))
    /\ UNCHANGED <<input, debug_build, held, pbox>>

NextLazy ==
    \/ CallSeek
    \/ CallKeepBoxFromReader
    \/ CallToVec
    \/ CallReadRange

SpecLazy == InitLazy /\ [][NextLazy]_vars

(***************************************************************************)
(* Claims about the lazy reads (checked under SpecLazy)                    *)
(***************************************************************************)
\* The bytes o .. o + n of the stream exist.
SpanInStream(span) ==
    /\ U64Le(span.offset, U64(Len(input)))
    /\ U64Le(span.len, U64Sub(U64(Len(input)), span.offset).val)

\* C23: to_vec on a lazy span (offset o, length n) whose bytes the source
\* holds returns bytes o .. o + n of the source, whatever the reader's position
\* was and whatever reads were made before; a second call returns the same
\* bytes; the spans kept are unchanged by the call.
C23_ToVecReturnsSpanBytes ==
    [][op' = "InputData::to_vec" =>
         /\ SpanInStream(arg'.span) =>
              res' = [kind |-> "Ok",
                      bytes |-> SubSeq(input, Nat32(arg'.span.offset) + 1,
                                       Nat32(arg'.span.offset) + Nat32(arg'.span.len))]
         /\ (op = "InputData::to_vec" /\ arg = arg') => res' = res
         /\ held' = held
         /\ input' = input]_vars

\* The payload of the second box read a second time, after two boxes were
\* parsed: the two bytes at 16 and 17.
C23_Witness ==
    /\ op = "InputData::to_vec"
    /\ arg.span = Lazy(U64(16), U64(2))
    /\ res = [kind |-> "Ok", bytes |-> <<123, 125>>]
    /\ Cardinality(held) = 2
    /\ pos = U64(18)
    /\ input = EncBox(JSON_BOX_TYPE, <<>>) \o EncBox(JSON_BOX_TYPE, <<123, 125>>)
                  \o EncBoxToEnd(JSON_BOX_TYPE, <<125>>)

\* C27: a to_vec or read_range on a lazy span right after a successful
\* from_reader leaves the reader so that the next from_reader returns what it
\* would have returned without the read: the box that starts where the first
\* box ended.
C27_ReadKeepsParsePosition ==
    [][(/\ op = "DataBox::from_reader"
        /\ res.kind = "Ok"
        /\ op' \in {"InputData::to_vec", "InputSlice::read_range"})
         => DataBox_from_reader(input', pos', debug_build)
              = DataBox_from_reader(input, pos, debug_build)]_vars

(***************************************************************************)
(* The box writer: write_jumbf, DataBoxBuilder and PlaceholderDataBox      *)
(***************************************************************************)
\* std::io::Error::other(..), told apart by what it reports.
OtherError(what) == [kind |-> "Other", error |-> what]

\* The sink: a std::io::Cursor<Vec<u8>>, its bytes and its position.
Sink(bytes, p) == [bytes |-> bytes, pos |-> p]

\* to_stream.write_all(buf) on a Cursor<Vec<u8>>: the bytes at the position are
\* overwritten and the vector grows where buf reaches past its end (a position
\* past the end, which no call of this model produces, is reached by filling
\* with zeros).
write_all(sink, buf) ==
    IF buf = <<>> THEN sink
    ELSE Sink(SubSeq(sink.bytes, 1, IF sink.pos < Len(sink.bytes)
                                    THEN sink.pos ELSE Len(sink.bytes))
              \o [i \in 1..(sink.pos - Len(sink.bytes)) |-> 0]
              \o buf
              \o SubSeq(sink.bytes, sink.pos + Len(buf) + 1, Len(sink.bytes)),
              sink.pos + Len(buf))

\* DataBoxBuilder::from_borrowed and from_owned: the data is a Cow.
DataBoxBuilder_from_borrowed(tbox, data) ==
    [tbox |-> tbox, data |-> data, cow |-> "Borrowed"]

DataBoxBuilder_from_owned(tbox, data) ==
    [tbox |-> tbox, data |-> data, cow |-> "Owned"]

\* Mutant of DataBoxBuilder_payload_size: a terminator is counted with the data.
DataBoxBuilder_payload_size_with_nul(boxx) == Len(boxx.data) + 1

DataBoxBuilder_payload_size(boxx) == Len(boxx.data)

\* Mutant of DataBoxBuilder_write_payload: the last byte of the data is not written.
DataBoxBuilder_write_payload_short(boxx, sink) ==
    [kind |-> "Ok", sink |-> write_all(sink, SubSeq(boxx.data, 1, Len(boxx.data) - 1))]

DataBoxBuilder_write_payload(boxx, sink) ==
    [kind |-> "Ok", sink |-> write_all(sink, boxx.data)]

\* jumbf_size: the framed size of a box with this payload size.
jumbf_size(payload_size) == payload_size + 8

\* The 8 header bytes write_jumbf emits: the length, big-endian, and the type.
box_header(size, tbox) == u32_to_be_bytes(U64(size)) \o tbox

\* write_jumbf(&boxx, &mut sink) for a DataBoxBuilder.
DataBoxBuilder_write_jumbf(boxx, sink) ==
    DataBoxBuilder_write_payload(
        boxx,
        write_all(sink, box_header(jumbf_size(DataBoxBuilder_payload_size(boxx)),
                                   boxx.tbox)))

\* PlaceholderDataBox::new(tbox, size)
PlaceholderDataBox_new(tbox, size) == [tbox |-> tbox, size |-> size, offset |-> None]

\* PlaceholderDataBox::offset()
PlaceholderDataBox_offset(self) == self.offset

PlaceholderDataBox_payload_size(self) == self.size

\* Mutant of recorded_offset: the position before the header is recorded.
recorded_offset_of_header(stream_position) == Some(stream_position - 8)

\* `self.offset.replace(Some(offset))`
recorded_offset(stream_position) == Some(stream_position)

\* Mutant of PlaceholderDataBox_write_payload: the position is not looked at.
PlaceholderDataBox_write_payload_unchecked(self, sink) ==
    [kind |-> "Ok",
     self |-> [self EXCEPT !.offset = recorded_offset(sink.pos)],
     sink |-> write_all(sink, [i \in 1..self.size |-> 0])]

\* PlaceholderDataBox::write_payload: the placeholder and the sink afterwards.
PlaceholderDataBox_write_payload(self, sink) ==
    IF sink.pos = 0
    THEN [kind |-> "Other", error |-> "placeholder stream should have some data already",
          self |-> self, sink |-> sink]
    ELSE [kind |-> "Ok",
          self |-> [self EXCEPT !.offset = recorded_offset(sink.pos)],
          sink |-> write_all(sink, [i \in 1..self.size |-> 0])]

\* write_jumbf(&pbox, &mut sink) for a PlaceholderDataBox.
PlaceholderDataBox_write_jumbf(self, sink) ==
    PlaceholderDataBox_write_payload(
        self,
        write_all(sink, box_header(jumbf_size(PlaceholderDataBox_payload_size(self)),
                                   self.tbox)))

\* Mutant of payload_too_large: a payload of exactly the reserved size is refused.
payload_too_large_or_equal(payload, size) == Len(payload) >= size

\* `payload.len() > self.size`
payload_too_large(payload, size) == Len(payload) > size

\* Mutant of replace_payload: the payload is written where the sink stands.
replace_payload_without_seek(self, sink, payload) ==
    IF payload_too_large(payload, self.size)
    THEN [kind |-> "Other", error |-> "payload is larger than reserved capacity",
          sink |-> sink]
    ELSE IF self.offset # None
    THEN [kind |-> "Ok", sink |-> write_all(sink, payload)]
    ELSE [kind |-> "Other", error |-> "no offset recorded", sink |-> sink]

\* PlaceholderDataBox::replace_payload(&mut sink, payload)
replace_payload(self, sink, payload) ==
    IF payload_too_large(payload, self.size)
    THEN [kind |-> "Other", error |-> "payload is larger than reserved capacity",
          sink |-> sink]
    ELSE IF self.offset # None
    THEN [kind |-> "Ok",
          sink |-> write_all(Sink(sink.bytes, self.offset[1]), payload)]
    ELSE [kind |-> "Other", error |-> "no offset recorded", sink |-> sink]

(***************************************************************************)
(* Specification of the writer: one sink, data boxes written to it, and    *)
(* one placeholder framed, written and patched                             *)
(***************************************************************************)
\* The largest size a placeholder reserves.
MaxReserve == 2

\* The sink does not grow beyond this many bytes.
MaxSink == 28

\* b"abcd", the type of the placeholder.
RANDOM_BOX_TYPE == <<97, 98, 99, 100>>

\* Payloads of 0 .. MaxReserve + 1 bytes: "", "1", "12", "123", ...
WriterPayloads == { [i \in 1..n |-> 48 + i] : n \in 0..(MaxReserve + 1) }

\* The DataBoxBuilders that are written: a box without payload and a box with
\* a payload of three bytes, each over borrowed and over owned bytes.
DataBoxBuilders ==
    { DataBoxBuilder_from_borrowed(t, d) :
        t \in {JSON_BOX_TYPE, DESCRIPTION_BOX_TYPE}, d \in {<<>>, <<123, 0, 125>>} }
    \cup { DataBoxBuilder_from_owned(t, d) :
             t \in {JSON_BOX_TYPE, DESCRIPTION_BOX_TYPE}, d \in {<<>>, <<123, 0, 125>>} }

\* The sink is empty, or holds b"ABCD" and stands at its start or at its end;
\* the placeholder has been constructed.
InitWriter ==
    /\ input \in {<<>>, <<65, 66, 67, 68>>}
    /\ pos \in {U64Zero, U64(Len(input))}
    /\ op = "new"
    /\ res = NoResult
    /\ arg = U64Zero
    /\ debug_build \in BOOLEAN
    /\ held = {}
    /\ pbox \in { PlaceholderDataBox_new(RANDOM_BOX_TYPE, n) : n \in 0..MaxReserve }

CurrentSink == Sink(input, Nat32(pos))

\* The caller writes its boxes one after the other: into the sink as it was
\* handed over, and from then on behind what the sink holds.
ReadyToWrite == op = "new" \/ pos = U64(Len(input))

\* to_stream.seek(SeekFrom::End(0)): back behind the last byte after a patch.
CallSeekEnd ==
    /\ pos # U64(Len(input))
    /\ pos' = U64(Len(input))
    /\ op' = "seek"
    /\ res' = NoResult
    /\ arg' = U64(Len(input))
    /\ UNCHANGED <<input, debug_build, held, pbox>>

\* The sink after a call that returned r.
sink_after(r) ==
    /\ Len(r.sink.bytes) <= MaxSink
    /\ input' = r.sink.bytes
    /\ pos' = U64(r.sink.pos)
    /\ res' = [k \in DOMAIN r \ {"sink", "self"} |-> r[k]]

\* jumbf_size(&boxx), for a DataBoxBuilder or the placeholder, asked before
\* anything is written.
CallJumbfSize ==
    /\ op = "new"
    /\ op' = "jumbf_size"
    /\ \E boxx \in DataBoxBuilders \cup {pbox} :
        /\ arg' = boxx
        /\ res' = [kind |-> "Ok",
                   size |-> jumbf_size(IF "data" \in DOMAIN boxx
                                       THEN DataBoxBuilder_payload_size(boxx)
                                       ELSE PlaceholderDataBox_payload_size(boxx))]
    /\ UNCHANGED <<input, pos, debug_build, held, pbox>>

\* write_jumbf(&boxx, &mut sink) for a DataBoxBuilder
CallWriteJumbfDataBox ==
    /\ ReadyToWrite
    /\ \E boxx \in DataBoxBuilders :
        /\ op' = "write_jumbf(DataBoxBuilder)"
        /\ arg' = [boxx |-> boxx, at |-> Nat32(pos)]
        /\ sink_after(DataBoxBuilder_write_jumbf(boxx, CurrentSink))
    /\ UNCHANGED <<debug_build, held, pbox>>

\* The placeholder after a call that returned r.
placeholder_after(r) ==
    /\ sink_after(r)
    /\ pbox' = r.self

\* write_jumbf(&pbox, &mut sink)
CallWriteJumbfPlaceholder ==
    /\ ReadyToWrite
    /\ op' = "write_jumbf(PlaceholderDataBox)"
    /\ arg' = [at |-> Nat32(pos)]
    /\ placeholder_after(PlaceholderDataBox_write_jumbf(pbox, CurrentSink))
    /\ UNCHANGED <<debug_build, held>>

\* to_stream.rewind() after the placeholder was framed.
CallRewind ==
    /\ op = "write_jumbf(PlaceholderDataBox)"
    /\ pos' = U64Zero
    /\ op' = "rewind"
    /\ res' = NoResult
    /\ arg' = U64Zero
    /\ UNCHANGED <<input, debug_build, held, pbox>>

\* pbox.write_payload(&mut sink), called directly: on the sink as it was handed
\* over (tests::error_write_payload_only), once more after a framing write, or
\* on the rewound sink.
CallWritePayload ==
    /\ \/ ReadyToWrite /\ op \in {"new", "write_jumbf(PlaceholderDataBox)"}
       \/ op = "rewind"
    /\ op' = "PlaceholderDataBox::write_payload"
    /\ arg' = [at |-> Nat32(pos)]
    /\ placeholder_after(PlaceholderDataBox_write_payload(pbox, CurrentSink))
    /\ UNCHANGED <<debug_build, held>>

\* pbox.replace_payload(&mut sink, payload)
CallReplacePayload ==
    /\ \E payload \in WriterPayloads :
        /\ op' = "PlaceholderDataBox::replace_payload"
        /\ arg' = [payload |-> payload]
        /\ sink_after(replace_payload(pbox, CurrentSink, payload))
    /\ UNCHANGED <<debug_build, held, pbox>>

NextWriter ==
    \/ CallSeekEnd
    \/ CallJumbfSize
    \/ CallWriteJumbfDataBox
    \/ CallWriteJumbfPlaceholder
    \/ CallRewind
    \/ CallWritePayload
    \/ CallReplacePayload

SpecWriter == InitWriter /\ [][NextWriter]_vars

(***************************************************************************)
(* Claims about the writer (checked under SpecWriter)                      *)
(***************************************************************************)
\* The sink `old` after exactly the bytes e were written at position p (p is
\* not past its end): e at p, every other byte as before.
SinkAfterEmitting(old, p, e) ==
    [i \in 1..(IF p + Len(e) > Len(old) THEN p + Len(e) ELSE Len(old)) |->
        IF i > p /\ i <= p + Len(e) THEN e[i - p] ELSE old[i]]

\* The bytes of a framed box: 4 bytes whose big-endian value is the payload's
\* length plus 8, the type, the payload.
IsFramedBox(e, tbox, payload) ==
    /\ Len(e) = 8 + Len(payload)
    /\ BigEndian(SubSeq(e, 1, 4)) = Len(payload) + 8
    /\ SubSeq(e, 5, 8) = tbox
    /\ SubSeq(e, 9, Len(e)) = payload

Zeros(n) == [i \in 1..n |-> 0]

\* What a box content writes as its payload.
PayloadWritten(boxx) == IF "data" \in DOMAIN boxx THEN boxx.data ELSE Zeros(boxx.size)

\* A step that is write_jumbf(boxx, sink) emits the framed box at the sink's
\* position and nothing else.
EmitsFramedBox(boxx) ==
    /\ res'.kind = "Ok"
    /\ Len(input') >= Nat32(pos) + 8 + Len(PayloadWritten(boxx))
    /\ IsFramedBox(SubSeq(input', Nat32(pos) + 1,
                          Nat32(pos) + 8 + Len(PayloadWritten(boxx))),
                   boxx.tbox, PayloadWritten(boxx))
    /\ input' = SinkAfterEmitting(input, Nat32(pos),
                                  SubSeq(input', Nat32(pos) + 1,
                                         Nat32(pos) + 8 + Len(PayloadWritten(boxx))))
    /\ pos' = U64(Nat32(pos) + 8 + Len(PayloadWritten(boxx)))
    /\ SubSeq(input', Nat32(pos) + 1, Nat32(pos) + 4) \notin {<<0, 0, 0, 0>>, <<0, 0, 0, 1>>}

\* C16: write_jumbf emits at the sink's position exactly the 4 bytes of
\* payload_size + 8 (big-endian), the 4 type bytes and the bytes write_payload
\* produces, and jumbf_size returns payload_size + 8; for a DataBoxBuilder the
\* payload is the buffer, borrowed or owned alike; the length field written is
\* never 0 or 1.
C16_WriterFramesPayload ==
    [][/\ op' = "write_jumbf(DataBoxBuilder)" => EmitsFramedBox(arg'.boxx)
       /\ op' = "write_jumbf(PlaceholderDataBox)" => EmitsFramedBox(pbox)
       /\ op' = "jumbf_size" => res'.size = Len(PayloadWritten(arg')) + 8]_vars

\* An owned three-byte payload framed behind b"ABCD".
C16_Witness ==
    /\ op = "write_jumbf(DataBoxBuilder)"
    /\ arg.boxx.cow = "Owned"
    /\ arg.at = 4
    /\ input = <<65, 66, 67, 68, 0, 0, 0, 11>> \o JSON_BOX_TYPE \o <<123, 0, 125>>

\* C17: the bytes write_jumbf emitted for a DataBoxBuilder parse with
\* DataBox::from_slice to a box with the type written, the payload written as
\* its data, all the emitted bytes as its original, and an empty remainder.
C17_WrittenBoxParsesBack ==
    op = "write_jumbf(DataBoxBuilder)" =>
        \A r \in {DataBox_from_slice(input, Slice(arg.at, Nat32(pos) - arg.at),
                                     debug_build)} :
            /\ r.kind = "Ok"
            /\ r.box.tbox = arg.boxx.tbox
            /\ r.box.data.kind = "Borrowed"
            /\ SliceBytes(input, Slice(r.box.data.start, r.box.data.len)) = arg.boxx.data
            /\ r.box.original = Borrowed(arg.at, Nat32(pos) - arg.at)
            /\ r.rem.len = 0

\* A description-typed box with three payload bytes written at position 0 and
\* parsed back.
C17_Witness ==
    /\ op = "write_jumbf(DataBoxBuilder)"
    /\ arg.at = 0
    /\ arg.boxx.tbox = DESCRIPTION_BOX_TYPE
    /\ arg.boxx.data = <<123, 0, 125>>
    /\ DataBox_from_slice(input, Slice(0, 11), debug_build).kind = "Ok"

PlaceholderWrites == {"write_jumbf(PlaceholderDataBox)", "PlaceholderDataBox::write_payload"}

C19_OffsetSetOnce ==
    [][PlaceholderDataBox_offset(pbox) # None
         => PlaceholderDataBox_offset(pbox') = PlaceholderDataBox_offset(pbox)]_vars

\* C20: replace_payload fails exactly when the payload is longer than the
\* reserved size or no offset is recorded, the size being checked first; a
\* failing call leaves the sink's bytes, length and position and the recorded
\* offset as they were.
C20_ReplaceFailsWithoutEffect ==
    [][op' = "PlaceholderDataBox::replace_payload" =>
         /\ (res'.kind # "Ok")
              = (Len(arg'.payload) > pbox.size \/ PlaceholderDataBox_offset(pbox) = None)
         /\ Len(arg'.payload) > pbox.size
              => res' = OtherError("payload is larger than reserved capacity")
         /\ (Len(arg'.payload) <= pbox.size /\ PlaceholderDataBox_offset(pbox) = None)
              => res' = OtherError("no offset recorded")
         /\ res'.kind # "Ok" => UNCHANGED <<input, pos, pbox>>]_vars

\* An oversized payload on a placeholder that was never framed: the size error.
C20_Witness ==
    /\ op = "PlaceholderDataBox::replace_payload"
    /\ PlaceholderDataBox_offset(pbox) = None
    /\ Len(arg.payload) > pbox.size
    /\ res = OtherError("payload is larger than reserved capacity")
    /\ input = <<65, 66, 67, 68>>

\* The 8 bytes before position o are the header of a box of type tbox with a
\* payload of n bytes.
HeaderBefore(b, o, tbox, n) ==
    /\ o >= 8
    /\ Len(b) >= o
    /\ BigEndian(SubSeq(b, o - 7, o - 4)) = n + 8
    /\ SubSeq(b, o - 3, o) = tbox

\* What a successful replace_payload(sink, p) at recorded offset o does to the
\* sink: p over the bytes [o, o + len(p)), nothing else.
PatchesReservedBytes(o, p, n) ==
    /\ Len(input') = Len(input)
    /\ o + Len(p) <= Len(input)
    /\ \A i \in 1..Len(input) :
          input'[i] = IF i > o /\ i <= o + Len(p) THEN p[i - o] ELSE input[i]
    /\ HeaderBefore(input, o, pbox.tbox, n) => HeaderBefore(input', o, pbox.tbox, n)
    /\ SubSeq(input, o + 1, o + n) = Zeros(n)
          => SubSeq(input', o + Len(p) + 1, o + n) = Zeros(n - Len(p))

\* C21: every successful replace_payload(sink, p) of a placeholder of size n
\* with recorded offset o sets the bytes [o, o + len(p)) of the sink to p and
\* leaves the sink's length and every other byte as they were, the header with
\* the framed length n + 8 included; where the n reserved bytes were zero (the
\* first replacement) the n - len(p) bytes behind p are zero afterwards.
C21_ReplacePatchesInPlace ==
    [][(op' = "PlaceholderDataBox::replace_payload" /\ res'.kind = "Ok")
         => PatchesReservedBytes(PlaceholderDataBox_offset(pbox)[1], arg'.payload,
                                 pbox.size)]_vars

\* A placeholder of two bytes framed behind b"ABCD" and a data box written
\* behind it; then one byte replaced.
C21_Witness ==
    /\ op = "PlaceholderDataBox::replace_payload"
    /\ res.kind = "Ok"
    /\ pbox.size = 2
    /\ arg.payload = <<49>>
    /\ input = <<65, 66, 67, 68, 0, 0, 0, 10>> \o RANDOM_BOX_TYPE \o <<49, 0>>
                  \o <<0, 0, 0, 8>> \o JSON_BOX_TYPE
    /\ pos = U64(13)

C28_OffsetFollowsOwnHeader ==
    (op # "new" /\ PlaceholderDataBox_offset(pbox) # None)
        => HeaderBefore(input, PlaceholderDataBox_offset(pbox)[1], pbox.tbox, pbox.size)

====
